---------------------------- MODULE Spec2Model ----------------------------
(***************************************************************************)
(* Model of the omnia LangChain runtime: the session stores (in-process    *)
(* LRU/TTL cache and external key-value cache), the per-turn event         *)
(* translation of LangChainHandler.handle_message, and the retry loop of   *)
(* ToolManager.execute.                                                    *)
(***************************************************************************)
EXTENDS Integers, Sequences, FiniteSets, TLC

(***************************************************************************)
(* Bounds of the model.                                                    *)
(***************************************************************************)
MaxCapacity == 2        \* largest max_sessions tried by the store specifications
MaxTime == 2            \* the clock stops here
MaxObjs == 2            \* Session objects the general store client constructs
MaxLruObjs == 4         \* Session objects the client of SpecLRU constructs
MaxEvents == 3          \* reasoning events the agent emits on one connection
MaxTurns == 2           \* turns of one connection
MaxRetries == 2         \* largest retries of a handler definition
TTL == 1                \* ttl_seconds of the stores, in clock ticks
MaxCodecMsgs == 2       \* messages of a session given to the record codec
MaxTimeoutLen == 3      \* characters of a timeout string
MaxCloses == 2          \* calls of ToolManager.close
MaxMsgs == 2            \* messages of a session the store client mutates

DefaultMaxSessions == 10000   \* InMemorySessionStore.__init__ default

Ids == {"s1", "s2", "s3"}           \* session ids
StoreIds == {"s1", "s2"}            \* the ids the general store client uses
None == 0                           \* Python None, as an object reference
NoCaller == ""                      \* the lock is free
Conns == {"c1", "c2"}               \* connections (Converse streams)
TurnIds == {"s1"}                   \* the session ids the callers send
Contents == {<<"q">>}               \* the texts the callers send

VARIABLES
    backend,        \* the session store made: "memory" | "redis" ("none": not yet)
    max_sessions,   \* InMemorySessionStore.max_sessions
    sessions,       \* InMemorySessionStore._sessions: object refs, oldest first
    heap,           \* the Session objects ever constructed, by reference
    now,            \* datetime.utcnow()
    ret,            \* the last call of the store API and what it returned
    recent,         \* the API client's log: the ids it saved or got, last use last
    _lock,          \* InMemorySessionStore._lock: the caller that holds it, if any
    callers,        \* per concurrent caller of the in-process store: its call
    rdb,            \* the external cache: key -> [data, expires]
    conn,           \* per connection: the position and locals of handle_message
    tools_config,   \* ToolManager.tools_config.handlers
    adapters,       \* ToolManager._adapters: tool name -> index of its handler
    exec,           \* the position and locals of ToolManager.execute
    exec2,          \* the same, of a second call that runs beside the first
    clients         \* per adapter object (by handler index): its httpx client

storeVars == <<backend, max_sessions, sessions, heap, now, ret, recent, _lock, callers>>
handlerVars == <<rdb, conn>>
toolVars == <<tools_config, adapters, exec, exec2, clients>>

vars == <<storeVars, handlerVars, toolVars>>

(***************************************************************************)
(* session/base.py: Session                                                *)
(***************************************************************************)
SeqsUpTo(S, n) == UNION {[1..k -> S] : k \in 0..n}

IsPrefix(p, q) == Len(p) <= Len(q) /\ SubSeq(q, 1, Len(p)) = p

NoMetadata == {}        \* the empty dict, as a set of <<key, value>> pairs

Session(id, t) ==
    [session_id |-> id, messages |-> <<>>, metadata |-> NoMetadata,
     created_at |-> t, updated_at |-> t]

\* langchain_core messages: the class (by its role), content,
\* additional_kwargs and, on a ToolMessage only, tool_call_id
NoId == ""

BaseMessage(role, c, kwargs, id) ==
    [role |-> role, content |-> c, additional_kwargs |-> kwargs, tool_call_id |-> id]

HumanMessage(c) == BaseMessage("user", c, NoMetadata, NoId)
AIMessage(c) == BaseMessage("assistant", c, NoMetadata, NoId)

\* a slip: the message is appended and updated_at is left as it was
add_messageNoStamp(H, o, m, t) == [H EXCEPT ![o].messages = Append(@, m)]

\* Session.add_message on the object o
add_message(H, o, m, t) ==
    [H EXCEPT ![o].messages = Append(@, m), ![o].updated_at = t]

\* Session.add_messages on the object o
add_messages(H, o, ms, t) ==
    [H EXCEPT ![o].messages = @ \o ms, ![o].updated_at = t]

\* Session.clear_messages on the object o
clear_messages(H, o, t) ==
    [H EXCEPT ![o].messages = <<>>, ![o].updated_at = t]

(***************************************************************************)
(* session/memory.py: InMemorySessionStore, on the ordered map S of        *)
(* object references (the key of an entry is its object's session_id).     *)
(***************************************************************************)
Keys(S, H) == {H[S[i]].session_id : i \in 1..Len(S)}

Lookup(S, H, id) ==
    IF id \in Keys(S, H)
    THEN S[CHOOSE i \in 1..Len(S) : H[S[i]].session_id = id]
    ELSE None

DelKey(S, H, id) == SelectSeq(S, LAMBDA o : H[o].session_id # id)

IsExpired(H, o, t) == t - H[o].updated_at > TTL

\* self._sessions.move_to_end(session_id)
move_to_end(S, H, id) == Append(DelKey(S, H, id), Lookup(S, H, id))

\* a slip: "while len(self._sessions) > self.max_sessions"
RECURSIVE EvictOldestOffByOne(_, _)
EvictOldestOffByOne(S, cap) ==
    IF Len(S) > cap /\ Len(S) > 0 THEN EvictOldestOffByOne(Tail(S), cap) ELSE S

\* while len(self._sessions) >= self.max_sessions: popitem(last=False)
RECURSIVE EvictOldest(_, _)
EvictOldest(S, cap) ==
    IF Len(S) >= cap /\ Len(S) > 0 THEN EvictOldest(Tail(S), cap) ELSE S

\* a slip: the expired entry is reported absent but left in the map
MemGetKeepsExpired(S, H, id, t) ==
    LET o == Lookup(S, H, id) IN
    IF o = None THEN [sessions |-> S, val |-> None]
    ELSE IF IsExpired(H, o, t) THEN [sessions |-> S, val |-> None]
    ELSE [sessions |-> move_to_end(S, H, id), val |-> o]

\* a slip: the entry found is returned but not moved to the end
MemGetNoPromote(S, H, id, t) ==
    LET o == Lookup(S, H, id) IN
    IF o = None THEN [sessions |-> S, val |-> None]
    ELSE IF IsExpired(H, o, t) THEN [sessions |-> DelKey(S, H, id), val |-> None]
    ELSE [sessions |-> S, val |-> o]

\* InMemorySessionStore.get: the map afterwards and the value returned
MemGet(S, H, id, t) ==
    LET o == Lookup(S, H, id) IN
    IF o = None THEN [sessions |-> S, val |-> None]
    ELSE IF IsExpired(H, o, t) THEN [sessions |-> DelKey(S, H, id), val |-> None]
    ELSE [sessions |-> move_to_end(S, H, id), val |-> o]

\* a slip: the expired entries are dropped before room is made
MemSavePurgesExpired(S, H, o, t, cap) ==
    [sessions |-> Append(EvictOldest(SelectSeq(DelKey(S, H, H[o].session_id),
                                               LAMBDA x : ~IsExpired(H, x, t)), cap), o),
     heap |-> [H EXCEPT ![o].updated_at = t]]

\* a slip: room is made before the entry of the id is removed
MemSaveEvictsFirst(S, H, o, t, cap) ==
    [sessions |-> Append(DelKey(EvictOldest(S, cap), H, H[o].session_id), o),
     heap |-> [H EXCEPT ![o].updated_at = t]]

\* a slip: the entry of the id is not removed before the session is put
MemSaveKeepsOld(S, H, o, t, cap) ==
    [sessions |-> Append(EvictOldest(S, cap), o),
     heap |-> [H EXCEPT ![o].updated_at = t]]

\* InMemorySessionStore.save: the map and the heap afterwards
MemSave(S, H, o, t, cap) ==
    [sessions |-> Append(EvictOldest(DelKey(S, H, H[o].session_id), cap), o),
     heap |-> [H EXCEPT ![o].updated_at = t]]

\* a slip: popitem(last=False) for pop(session_id, None)
MemDeletePopsOldest(S, H, id) == IF S = <<>> THEN S ELSE Tail(S)

\* InMemorySessionStore.delete
MemDelete(S, H, id) == DelKey(S, H, id)

\* a slip: ">=" for ">" in the test of the sweep
MemCleanupInclusive(S, H, t) ==
    [sessions |-> SelectSeq(S, LAMBDA o : ~(t - H[o].updated_at >= TTL)),
     val |-> Cardinality({i \in 1..Len(S) : t - H[S[i]].updated_at >= TTL})]

\* InMemorySessionStore.cleanup_expired
MemCleanup(S, H, t) ==
    [sessions |-> SelectSeq(S, LAMBDA o : ~IsExpired(H, o, t)),
     val |-> Cardinality({i \in 1..Len(S) : IsExpired(H, S[i], t)})]

\* a slip: the new session is returned but never saved
MemGetOrCreateNoSave(S, H, id, t, cap) ==
    LET g == MemGet(S, H, id, t) IN
    IF g.val # None
    THEN [sessions |-> g.sessions, heap |-> H, val |-> g.val]
    ELSE [sessions |-> g.sessions, heap |-> Append(H, Session(id, t)),
          val |-> Len(H) + 1]

\* a slip: a new session is created and saved whether or not one is stored
MemGetOrCreateAlwaysNew(S, H, id, t, cap) ==
    LET g == MemGet(S, H, id, t)
        o == Len(H) + 1
        sv == MemSave(g.sessions, Append(H, Session(id, t)), o, t, cap)
    IN  [sessions |-> sv.sessions, heap |-> sv.heap, val |-> o]

\* SessionStore.get_or_create on the in-process store
MemGetOrCreate(S, H, id, t, cap) ==
    LET g == MemGet(S, H, id, t) IN
    IF g.val # None
    THEN [sessions |-> g.sessions, heap |-> H, val |-> g.val]
    ELSE LET o == Len(H) + 1
             sv == MemSave(g.sessions, Append(H, Session(id, t)), o, t, cap)
         IN  [sessions |-> sv.sessions, heap |-> sv.heap, val |-> o]

(***************************************************************************)
(* session/redis.py: RedisSessionStore.  A record is the JSON text of      *)
(* _serialize, kept until its server-side expiry (setex).                  *)
(***************************************************************************)
NoKeys == [k \in {} |-> None]

\* msg.__class__.__name__
ClassName(m) ==
    CASE m.role = "user" -> "HumanMessage"
      [] m.role = "assistant" -> "AIMessage"
      [] m.role = "system" -> "SystemMessage"
      [] m.role = "tool" -> "ToolMessage"
      [] OTHER -> "ChatMessage"

\* datetime.isoformat: the date and time as text, microseconds kept
isoformat(t) == <<"T", t>>

\* datetime.fromisoformat
fromisoformat(x) == x[2]

\* the key is in the JSON object (a key that is absent is marked NoJson)
NoJson == "absent"

\* RedisSessionStore._serialize: the JSON object of json.dumps
_serialize(s) ==
    [messages |-> [i \in 1..Len(s.messages) |->
                      LET msg == s.messages[i] IN
                      [type |-> ClassName(msg),
                       content |-> msg.content,
                       additional_kwargs |-> msg.additional_kwargs,
                       tool_call_id |-> IF msg.role = "tool" THEN msg.tool_call_id
                                        ELSE NoJson]],
     metadata |-> s.metadata,
     created_at |-> isoformat(s.created_at),
     updated_at |-> isoformat(s.updated_at)]

\* a slip: the branches for SystemMessage and ToolMessage are missing
_deserializeTwoClasses(id, data) ==
    [session_id |-> id,
     messages |-> [i \in 1..Len(data.messages) |->
                      LET msg_data == data.messages[i] IN
                      IF msg_data.type = "AIMessage"
                      THEN BaseMessage("assistant", msg_data.content,
                                       msg_data.additional_kwargs, NoId)
                      ELSE BaseMessage("user", msg_data.content,
                                       msg_data.additional_kwargs, NoId)],
     metadata |-> data.metadata,
     created_at |-> fromisoformat(data.created_at),
     updated_at |-> fromisoformat(data.updated_at)]

\* RedisSessionStore._deserialize, of the JSON object of json.loads
_deserialize(id, data) ==
    [session_id |-> id,
     messages |-> [i \in 1..Len(data.messages) |->
                      LET msg_data == data.messages[i] IN
                      CASE msg_data.type = "HumanMessage" ->
                             BaseMessage("user", msg_data.content,
                                         msg_data.additional_kwargs, NoId)
                        [] msg_data.type = "AIMessage" ->
                             BaseMessage("assistant", msg_data.content,
                                         msg_data.additional_kwargs, NoId)
                        [] msg_data.type = "SystemMessage" ->
                             BaseMessage("system", msg_data.content,
                                         msg_data.additional_kwargs, NoId)
                        [] msg_data.type = "ToolMessage" ->
                             BaseMessage("tool", msg_data.content,
                                         msg_data.additional_kwargs,
                                         IF msg_data.tool_call_id = NoJson THEN NoId
                                         ELSE msg_data.tool_call_id)
                        [] OTHER -> HumanMessage(msg_data.content)],
     metadata |-> data.metadata,
     created_at |-> fromisoformat(data.created_at),
     updated_at |-> fromisoformat(data.updated_at)]

\* client.get(key): the record, unless the key is unset or has expired
RedisLive(R, id, t) == id \in DOMAIN R /\ t < R[id].expires

\* _deserialize returns: json.loads gives an object that has the keys read
\* without a default, parsed["created_at"] and parsed["updated_at"]
Deserializable(data) == {"created_at", "updated_at"} \subseteq DOMAIN data

\* a record _deserialize raises on
Garbage == [junk |-> TRUE]

\* a slip: no try/except around _deserialize
RedisGetPropagates(R, id, t) ==
    IF RedisLive(R, id, t) /\ Deserializable(R[id].data)
    THEN [found |-> TRUE, raised |-> FALSE, session |-> _deserialize(id, R[id].data)]
    ELSE [found |-> FALSE, raised |-> RedisLive(R, id, t), session |-> Session(id, t)]

\* RedisSessionStore.get: the Session built from the record, if there is one
\* and _deserialize does not raise; raised: the call ends in an exception
RedisGet(R, id, t) ==
    IF RedisLive(R, id, t) /\ Deserializable(R[id].data)
    THEN [found |-> TRUE, raised |-> FALSE, session |-> _deserialize(id, R[id].data)]
    ELSE [found |-> FALSE, raised |-> FALSE, session |-> Session(id, t)]

\* a slip: the record is set only if the key is not set (the first save wins)
RedisSaveFirstWins(R, H, o, t) ==
    LET H2 == [H EXCEPT ![o].updated_at = t]
        id == H[o].session_id
    IN  [rdb |-> IF RedisLive(R, id, t) THEN R
                 ELSE [k \in DOMAIN R \cup {id} |->
                          IF k = id THEN [data |-> _serialize(H2[o]), expires |-> t + TTL]
                          ELSE R[k]],
         heap |-> H2]

\* a slip: the messages of the session are appended to those of the record
RedisSaveMerges(R, H, o, t) ==
    LET H2 == [H EXCEPT ![o].updated_at = t]
        id == H[o].session_id
        data == _serialize(H2[o])
        old == IF RedisLive(R, id, t) /\ Deserializable(R[id].data)
               THEN R[id].data.messages ELSE <<>>
    IN  [rdb |-> [k \in DOMAIN R \cup {id} |->
                     IF k = id
                     THEN [data |-> [data EXCEPT !.messages = old \o @],
                           expires |-> t + TTL]
                     ELSE R[k]],
         heap |-> H2]

\* RedisSessionStore.save: session.updated_at = utcnow(); setex(key, ttl, data)
RedisSave(R, H, o, t) ==
    LET H2 == [H EXCEPT ![o].updated_at = t]
        id == H[o].session_id
    IN  [rdb |-> [k \in DOMAIN R \cup {id} |->
                     IF k = id THEN [data |-> _serialize(H2[o]), expires |-> t + TTL]
                     ELSE R[k]],
         heap |-> H2]

(***************************************************************************)
(* handler.py: LangChainHandler.handle_message, one turn of a connection.  *)
(***************************************************************************)
\* the reasoning events of agent.astream_events; ok = FALSE is a payload the
\* handler cannot process (list content, a value json.dumps rejects)
Event(ev, text, usage, ok) == [event |-> ev, text |-> text, usage |-> usage, ok |-> ok]

Events ==
    {Event("on_chat_model_stream", t, <<>>, TRUE) : t \in {<<>>, <<"a">>, <<"b">>}}
    \cup {Event("on_chat_model_stream", <<>>, <<>>, FALSE)}
    \cup {Event("on_tool_start", <<"t">>, <<>>, b) : b \in BOOLEAN}
    \cup {Event("on_tool_end", <<"t">>, <<>>, b) : b \in BOOLEAN}
    \cup {Event("on_llm_end", <<>>, u, TRUE) : u \in {<<>>, <<1, 2>>}}
    \cup {Event("on_chain_start", <<>>, <<>>, TRUE)}

\* runtime_pb2.ServerMessage
Msg(kind, content, usage) == [kind |-> kind, content |-> content, usage |-> usage]
Chunk(c) == Msg("chunk", c, <<>>)
ToolCall(c) == Msg("tool_call", c, <<>>)
\* ToolResult(id=run_id, result_json=output, is_error=False)
ToolResult(c) ==
    [kind |-> "tool_result", content |-> c, usage |-> <<>>, is_error |-> FALSE]
Done(c, i, o) == Msg("done", c, <<i, o>>)
Error == Msg("error", <<>>, <<>>)

\* an operation of the turn on its session or on the store
Op(op, role, content) == [op |-> op, role |-> role, content |-> content]
GetOp == Op("get", "", <<>>)
SaveOp == Op("save", "", <<>>)
AddOp(m) == Op("add_message", m.role, m.content)

\* pc: where the turn is; failed_at: where it was when an exception surfaced;
\* events, out, ops: what the turn has consumed, emitted and done so far
IdleConn ==
    [pc |-> "idle", failed_at |-> "", turns |-> 0, consumed |-> 0,
     session_id |-> "", content |-> <<>>,
     session |-> None, events |-> <<>>, out |-> <<>>, final_content |-> <<>>,
     total_input_tokens |-> 0, total_output_tokens |-> 0, ops |-> <<>>]

\* a slip: the exception ends the turn without a message
FailSilently(L) == [L EXCEPT !.pc = "error", !.failed_at = L.pc]

\* except Exception: yield ServerMessage(error=...)
Fail(L) == [L EXCEPT !.pc = "error", !.failed_at = L.pc, !.out = Append(@, Error)]

\* a slip: an event that cannot be processed is skipped
ConsumeSkipsBad(L, e) ==
    LET L1 == [L EXCEPT !.events = Append(@, e), !.consumed = @ + 1] IN
    IF ~e.ok THEN L1
    ELSE IF e.event = "on_chat_model_stream" /\ e.text # <<>>
    THEN [L1 EXCEPT !.final_content = @ \o e.text, !.out = Append(@, Chunk(e.text))]
    ELSE IF e.event = "on_tool_start" THEN [L1 EXCEPT !.out = Append(@, ToolCall(e.text))]
    ELSE IF e.event = "on_tool_end" THEN [L1 EXCEPT !.out = Append(@, ToolResult(e.text))]
    ELSE IF e.event = "on_llm_end" /\ e.usage # <<>>
    THEN [L1 EXCEPT !.total_input_tokens = @ + e.usage[1],
                    !.total_output_tokens = @ + e.usage[2]]
    ELSE L1

\* a slip: tool results are sent ahead of what is already out
ConsumeResultFirst(L, e) ==
    LET L1 == [L EXCEPT !.events = Append(@, e), !.consumed = @ + 1] IN
    IF ~e.ok THEN Fail(L1)
    ELSE IF e.event = "on_chat_model_stream" /\ e.text # <<>>
    THEN [L1 EXCEPT !.final_content = @ \o e.text, !.out = Append(@, Chunk(e.text))]
    ELSE IF e.event = "on_tool_start" THEN [L1 EXCEPT !.out = Append(@, ToolCall(e.text))]
    ELSE IF e.event = "on_tool_end" THEN [L1 EXCEPT !.out = <<ToolResult(e.text)>> \o @]
    ELSE IF e.event = "on_llm_end" /\ e.usage # <<>>
    THEN [L1 EXCEPT !.total_input_tokens = @ + e.usage[1],
                    !.total_output_tokens = @ + e.usage[2]]
    ELSE L1

\* a slip: "=" for "+=" on the usage totals and on the final text
ConsumeOverwrites(L, e) ==
    LET L1 == [L EXCEPT !.events = Append(@, e), !.consumed = @ + 1] IN
    IF ~e.ok THEN Fail(L1)
    ELSE IF e.event = "on_chat_model_stream" /\ e.text # <<>>
    THEN [L1 EXCEPT !.final_content = e.text, !.out = Append(@, Chunk(e.text))]
    ELSE IF e.event = "on_tool_start" THEN [L1 EXCEPT !.out = Append(@, ToolCall(e.text))]
    ELSE IF e.event = "on_tool_end" THEN [L1 EXCEPT !.out = Append(@, ToolResult(e.text))]
    ELSE IF e.event = "on_llm_end" /\ e.usage # <<>>
    THEN [L1 EXCEPT !.total_input_tokens = e.usage[1],
                    !.total_output_tokens = e.usage[2]]
    ELSE L1

\* a slip: a chunk is sent for every text event, with or without text, and
\* every other event is reported as a chunk without text
ConsumeEchoesAll(L, e) ==
    LET L1 == [L EXCEPT !.events = Append(@, e), !.consumed = @ + 1] IN
    IF ~e.ok THEN Fail(L1)
    ELSE IF e.event = "on_chat_model_stream"
    THEN [L1 EXCEPT !.final_content = @ \o e.text, !.out = Append(@, Chunk(e.text))]
    ELSE IF e.event = "on_tool_start" THEN [L1 EXCEPT !.out = Append(@, ToolCall(e.text))]
    ELSE IF e.event = "on_tool_end" THEN [L1 EXCEPT !.out = Append(@, ToolResult(e.text))]
    ELSE IF e.event = "on_llm_end" /\ e.usage # <<>>
    THEN [L1 EXCEPT !.total_input_tokens = @ + e.usage[1],
                    !.total_output_tokens = @ + e.usage[2]]
    ELSE [L1 EXCEPT !.out = Append(@, Chunk(<<>>))]

\* the body of the "async for event" loop for one event
Consume(L, e) ==
    LET L1 == [L EXCEPT !.events = Append(@, e), !.consumed = @ + 1] IN
    IF ~e.ok THEN Fail(L1)
    ELSE IF e.event = "on_chat_model_stream" THEN
        IF e.text # <<>>
        THEN [L1 EXCEPT !.final_content = @ \o e.text,
                        !.out = Append(@, Chunk(e.text))]
        ELSE L1
    ELSE IF e.event = "on_tool_start" THEN [L1 EXCEPT !.out = Append(@, ToolCall(e.text))]
    ELSE IF e.event = "on_tool_end" THEN [L1 EXCEPT !.out = Append(@, ToolResult(e.text))]
    ELSE IF e.event = "on_llm_end" THEN
        IF e.usage # <<>>
        THEN [L1 EXCEPT !.total_input_tokens = @ + e.usage[1],
                        !.total_output_tokens = @ + e.usage[2]]
        ELSE L1
    ELSE L1

\* yield ServerMessage(done=Done(final_content, usage))
SendDone(L) ==
    [L EXCEPT !.pc = "done",
              !.out = Append(@, Done(L.final_content, L.total_input_tokens,
                                     L.total_output_tokens))]

\* a slip: the next inbound message is taken while a turn is in flight
StartTurnPipelined(c, id, content) ==
    /\ conn[c].pc # "cancelled"
    /\ conn[c].turns < MaxTurns
    /\ conn' = [conn EXCEPT ![c] = [IdleConn EXCEPT !.pc = "load",
                                       !.turns = conn[c].turns + 1,
                                       !.consumed = conn[c].consumed,
                                       !.session_id = id, !.content = content]]
    /\ UNCHANGED <<storeVars, rdb, toolVars>>

\* the inbound message arrives: Converse calls handle_message
StartTurn(c, id, content) ==
    /\ conn[c].pc \in {"idle", "done", "error"}
    /\ conn[c].turns < MaxTurns
    /\ conn' = [conn EXCEPT ![c] = [IdleConn EXCEPT !.pc = "load",
                                       !.turns = conn[c].turns + 1,
                                       !.consumed = conn[c].consumed,
                                       !.session_id = id, !.content = content]]
    /\ UNCHANGED <<storeVars, rdb, toolVars>>

\* session.add_message(user_message), then the tools and create_agent, which
\* may raise; up to the first event awaited from the agent
Prepare(L, o, agentOk) ==
    LET L1 == [L EXCEPT !.session = o, !.pc = "agent",
                        !.ops = Append(@, AddOp(HumanMessage(L.content)))]
    IN  IF agentOk THEN [L1 EXCEPT !.pc = "stream"] ELSE Fail(L1)

\* a slip: the turn works on a copy of the stored session
LoadMemoryCopies(c, agentOk) ==
    /\ conn[c].pc = "load"
    /\ backend = "memory"
    /\ LET L == conn[c]
           g == MemGetOrCreate(sessions, heap, L.session_id, now, max_sessions)
           o == Len(g.heap) + 1
           L1 == [L EXCEPT !.ops = @ \o (IF Len(g.heap) > Len(heap)
                                         THEN <<GetOp, SaveOp>> ELSE <<GetOp>>)]
       IN  /\ sessions' = g.sessions
           /\ heap' = add_message(Append(g.heap, g.heap[g.val]), o,
                                  HumanMessage(L.content), now)
           /\ conn' = [conn EXCEPT ![c] = Prepare(L1, o, agentOk)]
    /\ UNCHANGED <<backend, max_sessions, _lock, callers, now, ret, recent, rdb, toolVars>>

\* in-process store: get_or_create never suspends
LoadMemory(c, agentOk) ==
    /\ conn[c].pc = "load"
    /\ backend = "memory"
    /\ LET L == conn[c]
           g == MemGetOrCreate(sessions, heap, L.session_id, now, max_sessions)
           L1 == [L EXCEPT !.ops = @ \o (IF Len(g.heap) > Len(heap)
                                         THEN <<GetOp, SaveOp>> ELSE <<GetOp>>)]
       IN  /\ sessions' = g.sessions
           /\ heap' = add_message(g.heap, g.val, HumanMessage(L.content), now)
           /\ conn' = [conn EXCEPT ![c] = Prepare(L1, g.val, agentOk)]
    /\ UNCHANGED <<backend, max_sessions, _lock, callers, now, ret, recent, rdb, toolVars>>

\* external cache: the reply to client.get; a live record is deserialized
\* into a new Session object
RedisGetHit(c, agentOk) ==
    /\ conn[c].pc = "load"
    /\ backend = "redis"
    /\ RedisGet(rdb, conn[c].session_id, now).found
    /\ LET L == conn[c]
           o == Len(heap) + 1
           H == Append(heap, RedisGet(rdb, L.session_id, now).session)
           L1 == [L EXCEPT !.ops = Append(@, GetOp)]
       IN  /\ heap' = add_message(H, o, HumanMessage(L.content), now)
           /\ conn' = [conn EXCEPT ![c] = Prepare(L1, o, agentOk)]
    /\ UNCHANGED <<backend, max_sessions, _lock, callers, sessions, now, ret, recent, rdb, toolVars>>

\* external cache: client.get finds nothing; get_or_create constructs a
\* Session and calls save
RedisGetMiss(c) ==
    /\ conn[c].pc = "load"
    /\ backend = "redis"
    /\ ~RedisGet(rdb, conn[c].session_id, now).found
    /\ IF RedisGet(rdb, conn[c].session_id, now).raised
       THEN /\ heap' = heap
            /\ conn' = [conn EXCEPT ![c] = Fail([conn[c] EXCEPT !.ops = Append(@, GetOp)])]
       ELSE /\ heap' = Append(heap, Session(conn[c].session_id, now))
            /\ conn' = [conn EXCEPT ![c].pc = "create", ![c].session = Len(heap) + 1,
                                    ![c].ops = Append(@, GetOp)]
    /\ UNCHANGED <<backend, max_sessions, _lock, callers, sessions, now, ret, recent, rdb, toolVars>>

\* external cache: the save of get_or_create completes
RedisCreated(c, agentOk) ==
    /\ conn[c].pc = "create"
    /\ LET L == conn[c]
           sv == RedisSave(rdb, heap, L.session, now)
           L1 == [L EXCEPT !.ops = Append(@, SaveOp)]
       IN  /\ rdb' = sv.rdb
           /\ heap' = add_message(sv.heap, L.session, HumanMessage(L.content), now)
           /\ conn' = [conn EXCEPT ![c] = Prepare(L1, L.session, agentOk)]
    /\ UNCHANGED <<backend, max_sessions, _lock, callers, sessions, now, ret, recent, toolVars>>

\* external cache: a call to the cache raises (connection lost, timeout)
StoreFails(c) ==
    /\ conn[c].pc \in {"load", "create", "save"}
    /\ backend = "redis"
    /\ conn' = [conn EXCEPT ![c] = Fail(conn[c])]
    /\ UNCHANGED <<storeVars, rdb, toolVars>>

\* the agent yields its next event
AgentEvent(c, e) ==
    /\ conn[c].pc = "stream"
    /\ conn[c].consumed < MaxEvents
    /\ conn' = [conn EXCEPT ![c] = Consume(conn[c], e)]
    /\ UNCHANGED <<storeVars, rdb, toolVars>>

\* the agent raises instead of yielding an event
AgentRaises(c) ==
    /\ conn[c].pc = "stream"
    /\ conn' = [conn EXCEPT ![c] = Fail(conn[c])]
    /\ UNCHANGED <<storeVars, rdb, toolVars>>

\* a slip: the assistant message is added whether or not there is text
FinalizeAlways(L, H, t) ==
    [conn |-> [L EXCEPT !.ops = Append(@, AddOp(AIMessage(L.final_content)))],
     heap |-> add_message(H, L.session, AIMessage(L.final_content), t)]

\* if final_content: session.add_message(AIMessage(content=final_content))
Finalize(L, H, t) ==
    IF L.final_content # <<>>
    THEN [conn |-> [L EXCEPT !.ops = Append(@, AddOp(AIMessage(L.final_content)))],
          heap |-> add_message(H, L.session, AIMessage(L.final_content), t)]
    ELSE [conn |-> L, heap |-> H]

\* in-process store: the stream ends; assistant message, save and done
\* follow without suspension
EndMemory(c) ==
    /\ conn[c].pc = "stream"
    /\ backend = "memory"
    /\ LET f == Finalize(conn[c], heap, now)
           sv == MemSave(sessions, f.heap, f.conn.session, now, max_sessions)
       IN  /\ sessions' = sv.sessions
           /\ heap' = sv.heap
           /\ conn' = [conn EXCEPT ![c] =
                         SendDone([f.conn EXCEPT !.ops = Append(@, SaveOp)])]
    /\ UNCHANGED <<backend, max_sessions, _lock, callers, now, ret, recent, rdb, toolVars>>

\* external cache: the stream ends; assistant message, then save is awaited
EndRedis(c) ==
    /\ conn[c].pc = "stream"
    /\ backend = "redis"
    /\ LET f == Finalize(conn[c], heap, now)
       IN  /\ heap' = f.heap
           /\ conn' = [conn EXCEPT ![c] = [f.conn EXCEPT !.pc = "save"]]
    /\ UNCHANGED <<backend, max_sessions, _lock, callers, sessions, now, ret, recent, rdb, toolVars>>

\* external cache: the final save completes; done
RedisSaved(c) ==
    /\ conn[c].pc = "save"
    /\ LET sv == RedisSave(rdb, heap, conn[c].session, now)
       IN  /\ rdb' = sv.rdb
           /\ heap' = sv.heap
           /\ conn' = [conn EXCEPT ![c] =
                         SendDone([conn[c] EXCEPT !.ops = Append(@, SaveOp)])]
    /\ UNCHANGED <<backend, max_sessions, _lock, callers, sessions, now, ret, recent, toolVars>>

\* a slip: a "finally" that adds what text there is and saves the session
CancelSavesPartial(c) ==
    /\ conn[c].pc \in {"load", "create", "stream", "save"}
    /\ conn' = [conn EXCEPT ![c].pc = "cancelled"]
    /\ IF conn[c].pc = "stream"
       THEN LET f == Finalize(conn[c], heap, now) IN
            /\ heap' = f.heap
            /\ rdb' = IF backend = "redis" THEN RedisSave(rdb, f.heap, conn[c].session, now).rdb
                      ELSE rdb
       ELSE UNCHANGED <<heap, rdb>>
    /\ UNCHANGED <<backend, max_sessions, _lock, callers, sessions, now, ret, recent, toolVars>>

\* a slip: "except BaseException": the cancellation is reported as an error
\* of the turn before it ends the connection
CancelReportsError(c) ==
    /\ conn[c].pc \in {"load", "create", "stream", "save"}
    /\ conn' = [conn EXCEPT ![c] = [Fail(conn[c]) EXCEPT !.pc = "cancelled"]]
    /\ UNCHANGED <<storeVars, rdb, toolVars>>

\* the client cancels or disconnects while the turn is suspended:
\* CancelledError is not an Exception, nothing is emitted
Cancel(c) ==
    /\ conn[c].pc \in {"load", "create", "stream", "save"}
    /\ conn' = [conn EXCEPT ![c].pc = "cancelled"]
    /\ UNCHANGED <<storeVars, rdb, toolVars>>

\* external cache: the turn is cancelled while it waits for the reply to a
\* setex the server has already carried out
CancelAfterWrite(c) ==
    /\ conn[c].pc \in {"create", "save"}
    /\ LET sv == RedisSave(rdb, heap, conn[c].session, now)
       IN  /\ rdb' = sv.rdb
           /\ heap' = sv.heap
    /\ conn' = [conn EXCEPT ![c].pc = "cancelled"]
    /\ UNCHANGED <<backend, max_sessions, _lock, callers, sessions, now, ret, recent, toolVars>>

TurnStep(c) ==
    \/ \E id \in TurnIds, content \in Contents : StartTurn(c, id, content)
    \/ \E b \in BOOLEAN : LoadMemory(c, b)
    \/ \E b \in BOOLEAN : RedisGetHit(c, b)
    \/ RedisGetMiss(c)
    \/ \E b \in BOOLEAN : RedisCreated(c, b)
    \/ StoreFails(c)
    \/ \E e \in Events : AgentEvent(c, e)
    \/ AgentRaises(c)
    \/ EndMemory(c)
    \/ EndRedis(c)
    \/ RedisSaved(c)
    \/ Cancel(c)


(***************************************************************************)
(* tools/config.py, tools/http.py, tools/manager.py: the tool dispatcher.  *)
(***************************************************************************)
NoTool == ""            \* HandlerConfig.tool is None

\* HandlerConfig: name, type, tool.name (or no tool block), retries
HandlerChoices(name) ==
    {[name |-> name, type |-> ty, tool |-> tl, retries |-> r] :
        ty \in {"http", "grpc"}, tl \in {NoTool, "t1", "t2"}, r \in 0..MaxRetries}

Configs ==
    {<<>>} \cup {<<h>> : h \in HandlerChoices("h1")}
    \cup {<<h, g>> : h \in HandlerChoices("h1"), g \in HandlerChoices("h2")}

ToolNames == {"t1", "t2", "h1", "h2"}      \* the names execute is called with

\* HTTPToolAdapter.tool_name
tool_name(h) == IF h.tool # NoTool THEN h.tool ELSE h.name

\* a slip: a name that is already registered keeps its adapter
RECURSIVE RegistryFirstWins(_, _)
RegistryFirstWins(cfg, n) ==
    IF n = 0 THEN NoKeys
    ELSE LET R == RegistryFirstWins(cfg, n - 1)
             h == cfg[n]
         IN  IF h.type = "http" /\ tool_name(h) \notin DOMAIN R
             THEN [k \in DOMAIN R \cup {tool_name(h)} |->
                      IF k = tool_name(h) THEN n ELSE R[k]]
             ELSE R

\* ToolManager.initialize: the registry after the handlers 1..n
RECURSIVE Registry(_, _)
Registry(cfg, n) ==
    IF n = 0 THEN NoKeys
    ELSE LET R == Registry(cfg, n - 1)
             h == cfg[n]
         IN  IF h.type = "http"
             THEN [k \in DOMAIN R \cup {tool_name(h)} |->
                      IF k = tool_name(h) THEN n ELSE R[k]]
             ELSE R

\* ToolsConfig.get_tool_handler: the first handler whose tool block has the name
get_tool_handler(cfg, name) ==
    LET hits == {i \in 1..Len(cfg) : cfg[i].tool # NoTool /\ cfg[i].tool = name}
    IN  IF hits = {} THEN None ELSE CHOOSE i \in hits : \A j \in hits : i <= j

\* max_retries = handler.retries if handler else 0
max_retries(cfg, name) ==
    IF get_tool_handler(cfg, name) = None THEN 0
    ELSE cfg[get_tool_handler(cfg, name)].retries

\* what one adapter.execute(arguments) does
Outcome(kind, val, retryable) == [kind |-> kind, val |-> val, is_retryable |-> retryable]

Outcomes ==
    {Outcome("ok", v, FALSE) : v \in {"v1", "v2"}}
    \cup {Outcome("ToolAdapterError", "", b) : b \in BOOLEAN}
    \cup {Outcome("Exception", "", FALSE)}

IdleExec ==
    [pc |-> "idle", tool_name |-> "", adapter |-> None, max_retries |-> 0, attempt |-> 0,
     hist |-> <<>>, result |-> Outcome("none", "", FALSE)]

\* the adapter objects _create_adapter makes, one per handler definition
\* (None for a type that is not supported): self._client is None
NoClients(cfg) == [n \in 1..Len(cfg) |-> "none"]

\* HTTPToolAdapter._get_client: the client is created on first use
_get_client(C, a) == IF C[a] = "open" THEN C ELSE [C EXCEPT ![a] = "open"]

\* ToolManager.initialize
Initialize ==
    /\ exec.pc # "attempt"
    /\ clients = <<>>
    /\ adapters' = Registry(tools_config, Len(tools_config))
    /\ adapters' # adapters
    /\ clients' = NoClients(tools_config)
    /\ UNCHANGED <<storeVars, handlerVars, tools_config, exec, exec2>>

\* a slip: for attempt in range(max_retries)
LoopLengthShort(n) == n

\* for attempt in range(max_retries + 1)
LoopLength(n) == n + 1

\* the head of the for loop: the next attempt, or past the loop
\* "raise last_error or ToolAdapterError(...)"
LoopHead(E) ==
    IF E.attempt < LoopLength(E.max_retries) THEN [E EXCEPT !.pc = "attempt"]
    ELSE [E EXCEPT !.pc = "raised",
                   !.result = IF E.hist = <<>>
                              THEN Outcome("ToolAdapterError", "Unknown error", FALSE)
                              ELSE E.hist[Len(E.hist)]]

\* a slip: the "unknown tool" error is marked retryable
UnknownToolRetryable(name) ==
    [IdleExec EXCEPT !.pc = "raised", !.tool_name = name,
        !.result = Outcome("ToolAdapterError", "No adapter found", TRUE)]

\* if adapter is None: raise ToolAdapterError("No adapter found ...", tool_name=...)
\* (is_retryable keeps its default, False)
UnknownTool(name) ==
    [IdleExec EXCEPT !.pc = "raised", !.tool_name = name,
        !.result = Outcome("ToolAdapterError", "No adapter found", FALSE)]

\* ToolManager.execute up to its first await: adapter lookup, retry budget,
\* head of the loop
Execute(name) ==
    IF name \notin DOMAIN adapters
    THEN UnknownTool(name)
    ELSE LoopHead([IdleExec EXCEPT !.tool_name = name,
                      !.adapter = adapters[name],
                      !.max_retries = max_retries(tools_config, name)])

\* a slip: a name without an adapter is bound to the adapter of the first
\* handler definition
ExecuteCallRegisters(name) ==
    /\ exec.pc \in {"idle", "returned", "raised"}
    /\ exec' = Execute(name)
    /\ adapters' = IF name \in DOMAIN adapters \/ tools_config = <<>> THEN adapters
                   ELSE [k \in DOMAIN adapters \cup {name} |->
                            IF k = name THEN 1 ELSE adapters[k]]
    /\ UNCHANGED <<storeVars, handlerVars, tools_config, clients, exec2>>

\* ToolManager.execute is called
ExecuteCall(name) ==
    /\ exec.pc \in {"idle", "returned", "raised"}
    /\ exec' = Execute(name)
    /\ UNCHANGED <<storeVars, handlerVars, tools_config, adapters, clients, exec2>>

\* a slip: the retryable flag of the error is not looked at
ReraiseIgnoresFlag(o, attempt, budget) == attempt >= budget

\* if not e.is_retryable or attempt >= max_retries: raise
Reraise(o, attempt, budget) == ~o.is_retryable \/ attempt >= budget

\* a slip: "except Exception": any exception of the adapter is retried while
\* the budget lasts
AdapterOutcomeRetriesAll(o) ==
    /\ exec.pc = "attempt"
    /\ LET E == [exec EXCEPT !.hist = Append(@, o)] IN
       exec' = IF o.kind = "ok" THEN [E EXCEPT !.pc = "returned", !.result = o]
               ELSE IF o.kind = "ToolAdapterError" /\ Reraise(o, E.attempt, E.max_retries)
                    THEN [E EXCEPT !.pc = "raised", !.result = o]
               ELSE IF o.kind # "ToolAdapterError" /\ E.attempt >= E.max_retries
                    THEN [E EXCEPT !.pc = "raised", !.result = o]
               ELSE LoopHead([E EXCEPT !.attempt = @ + 1])
    /\ clients' = _get_client(clients, exec.adapter)
    /\ UNCHANGED <<storeVars, handlerVars, tools_config, adapters, exec2>>

\* adapter.execute returns or raises: the body of the try
AdapterOutcome(o) ==
    /\ exec.pc = "attempt"
    /\ LET E == [exec EXCEPT !.hist = Append(@, o)] IN
       exec' = IF o.kind = "ok" THEN [E EXCEPT !.pc = "returned", !.result = o]
               ELSE IF o.kind # "ToolAdapterError" THEN [E EXCEPT !.pc = "raised", !.result = o]
               ELSE IF Reraise(o, E.attempt, E.max_retries)
                    THEN [E EXCEPT !.pc = "raised", !.result = o]
               ELSE LoopHead([E EXCEPT !.attempt = @ + 1])
    /\ clients' = _get_client(clients, exec.adapter)
    /\ UNCHANGED <<storeVars, handlerVars, tools_config, adapters, exec2>>

\* ToolManager.execute is called while another call may be in flight
ExecuteCallBeside(name) ==
    /\ exec2.pc \in {"idle", "returned", "raised"}
    /\ exec2' = Execute(name)
    /\ UNCHANGED <<storeVars, handlerVars, tools_config, adapters, clients, exec>>

\* adapter.execute of the second call returns or raises
AdapterOutcomeBeside(o) ==
    /\ exec2.pc = "attempt"
    /\ LET E == [exec2 EXCEPT !.hist = Append(@, o)] IN
       exec2' = IF o.kind = "ok" THEN [E EXCEPT !.pc = "returned", !.result = o]
                ELSE IF o.kind # "ToolAdapterError" THEN [E EXCEPT !.pc = "raised", !.result = o]
                ELSE IF Reraise(o, E.attempt, E.max_retries)
                     THEN [E EXCEPT !.pc = "raised", !.result = o]
                ELSE LoopHead([E EXCEPT !.attempt = @ + 1])
    /\ clients' = _get_client(clients, exec2.adapter)
    /\ UNCHANGED <<storeVars, handlerVars, tools_config, adapters, exec>>

(***************************************************************************)
(* A turn whose agent calls tools: the function _create_tool_handler makes *)
(* runs ToolManager.execute and turns its outcome into the tool's output.  *)
(***************************************************************************)
\* handler(**kwargs): the result of execute, or json.dumps({"error": ...,
\* "tool": tool_name}) when execute raised ToolAdapterError or Exception
ToolHandler(E) ==
    IF E.pc = "returned" THEN <<E.result.val>> ELSE <<"error", E.tool_name>>

\* the agent starts a tool: on_tool_start reaches the turn's loop and the
\* tool function calls execute
ToolRun(c, name) ==
    /\ conn[c].pc = "stream"
    /\ conn[c].consumed + 1 < MaxEvents
    /\ exec.pc = "idle"
    /\ conn' = [conn EXCEPT ![c] =
                  Consume(conn[c], Event("on_tool_start", <<name>>, <<>>, TRUE))]
    /\ exec' = Execute(name)
    /\ UNCHANGED <<storeVars, rdb, tools_config, adapters, clients, exec2>>

\* the tool function has returned its output: on_tool_end reaches the loop
ToolEnd(c) ==
    /\ conn[c].pc = "stream"
    /\ exec.pc \in {"returned", "raised"}
    /\ conn' = [conn EXCEPT ![c] =
                  Consume(conn[c], Event("on_tool_end", ToolHandler(exec), <<>>, TRUE))]
    /\ exec' = IdleExec
    /\ UNCHANGED <<storeVars, rdb, tools_config, adapters, clients, exec2>>

(***************************************************************************)
(* A client of the store API (as tests/test_session.py drives it).         *)
(***************************************************************************)
Touch(r, id) == Append(SelectSeq(r, LAMBDA x : x # id), id)

\* what the client saw: the call, its argument, the entry stored under the id
\* when it called, and the value returned
Result(op, id, had, val) == [op |-> op, id |-> id, had |-> had, val |-> val]

\* the messages of a session the client builds
NewMessages == {<<>>, <<HumanMessage(<<"q">>)>>}

\* session = Session(session_id=id); session.add_message(...), if any;
\* await store.save(session)
ApiSaveNew(id, msgs, lim) ==
    /\ Len(heap) < lim
    /\ LET o == Len(heap) + 1
           H == Append(heap, Session(id, now))
           H1 == IF msgs = <<>> THEN H ELSE add_message(H, o, msgs[1], now)
           sv == MemSave(sessions, H1, o, now, max_sessions)
       IN  /\ sessions' = sv.sessions
           /\ heap' = sv.heap
           /\ ret' = Result("save", id, Lookup(sessions, heap, id), o)
    /\ recent' = Touch(recent, id)
    /\ UNCHANGED <<backend, max_sessions, _lock, callers, now, handlerVars, toolVars>>

\* await store.save(session) on a Session the client still holds
ApiSave(o) ==
    /\ o \in 1..Len(heap)
    /\ LET sv == MemSave(sessions, heap, o, now, max_sessions)
       IN  /\ sessions' = sv.sessions
           /\ heap' = sv.heap
           /\ ret' = Result("save", heap[o].session_id,
                            Lookup(sessions, heap, heap[o].session_id), o)
    /\ recent' = Touch(recent, heap[o].session_id)
    /\ UNCHANGED <<backend, max_sessions, _lock, callers, now, handlerVars, toolVars>>

\* await store.get(id)
ApiGet(id) ==
    /\ LET g == MemGet(sessions, heap, id, now)
       IN  /\ sessions' = g.sessions
           /\ ret' = Result("get", id, Lookup(sessions, heap, id), g.val)
           /\ recent' = IF g.val # None THEN Touch(recent, id) ELSE recent
    /\ UNCHANGED <<backend, max_sessions, _lock, callers, heap, now, handlerVars, toolVars>>

\* await store.get_or_create(id)
ApiGetOrCreate(id) ==
    /\ Len(heap) < MaxObjs
    /\ LET g == MemGetOrCreate(sessions, heap, id, now, max_sessions)
       IN  /\ sessions' = g.sessions
           /\ heap' = g.heap
           /\ ret' = Result("get_or_create", id, Lookup(sessions, heap, id), g.val)
    /\ recent' = Touch(recent, id)
    /\ UNCHANGED <<backend, max_sessions, _lock, callers, now, handlerVars, toolVars>>

\* await store.delete(id)
ApiDelete(id) ==
    /\ sessions' = MemDelete(sessions, heap, id)
    /\ ret' = Result("delete", id, Lookup(sessions, heap, id), None)
    /\ UNCHANGED <<backend, max_sessions, _lock, callers, heap, now, recent, handlerVars, toolVars>>

\* await store.cleanup_expired()
ApiCleanup ==
    /\ LET c == MemCleanup(sessions, heap, now)
       IN  /\ sessions' = c.sessions
           /\ ret' = Result("cleanup_expired", "", None, c.val)
    /\ UNCHANGED <<backend, max_sessions, _lock, callers, heap, now, recent, handlerVars, toolVars>>

\* time passes
Tick ==
    /\ now < MaxTime
    /\ now' = now + 1
    /\ ret' = Result("tick", "", None, None)
    /\ UNCHANGED <<backend, max_sessions, _lock, callers, sessions, heap, recent, handlerVars, toolVars>>

\* InMemorySessionStore(max_sessions=n) with n sessions at most
InitStoreWith(caps) ==
    /\ backend = "memory"
    /\ max_sessions \in caps
    /\ _lock = NoCaller
    /\ callers = <<>>
    /\ sessions = <<>>
    /\ heap = <<>>
    /\ now = 0
    /\ ret = Result("init", "", None, None)
    /\ recent = <<>>
    /\ rdb = NoKeys
    /\ conn = [c \in Conns |-> IdleConn]
    /\ tools_config = <<>>
    /\ adapters = NoKeys
    /\ exec = IdleExec
    /\ exec2 = IdleExec
    /\ clients = <<>>

\* saves and gets only, at one instant: no entry expires
NextLRU ==
    \/ \E id \in Ids : ApiSaveNew(id, <<>>, MaxLruObjs)
    \/ \E o \in 1..MaxLruObjs : ApiSave(o)
    \/ \E id \in Ids : ApiGet(id)

InitLRU == InitStoreWith(1..MaxCapacity)

SpecLRU == InitLRU /\ [][NextLRU]_vars

\* a store of two sessions: new sessions are saved and ids are got while
\* time passes, so that a get finds its id stored, absent or expired
InitPromote == InitStoreWith({MaxCapacity})

NextPromote ==
    \/ \E id \in Ids : ApiSaveNew(id, <<>>, MaxObjs + 1)
    \/ \E id \in Ids : ApiGet(id)
    \/ Tick

SpecPromote == InitPromote /\ [][NextPromote]_vars

\* the default store, swept now and then: sessions are saved and got at
\* different times, so that the sweep finds entries of several ages in an
\* order that is not the order of their ages
NextSweep ==
    \/ \E id \in Ids : ApiSaveNew(id, <<>>, MaxObjs + 1)
    \/ \E id \in Ids : ApiGet(id)
    \/ ApiCleanup
    \/ Tick

SpecSweep == InitStoreWith({DefaultMaxSessions}) /\ [][NextSweep]_vars

\* a small store whose client saves new sessions and the session a get has
\* just handed it, reads, deletes and sweeps in any order while time passes
InitCapacity == InitStoreWith(1..MaxCapacity)

NextCapacity ==
    \/ \E id \in StoreIds : ApiSaveNew(id, <<>>, MaxObjs)
    \/ \E o \in 1..MaxObjs : ret.val = o /\ ret.op = "get" /\ ApiSave(o)
    \/ \E id \in StoreIds : ApiGet(id)
    \/ \E id \in StoreIds : ApiDelete(id)
    \/ ApiCleanup
    \/ Tick

SpecCapacity == InitCapacity /\ [][NextCapacity]_vars

\* the client changes a session it holds, and does not save it:
\* session.add_message(HumanMessage(...))
ApiAddMessage(o) ==
    /\ o \in 1..Len(heap)
    /\ Len(heap[o].messages) < MaxMsgs
    /\ heap' = add_message(heap, o, HumanMessage(<<"q">>), now)
    /\ ret' = Result("add_message", heap[o].session_id,
                     Lookup(sessions, heap, heap[o].session_id), o)
    /\ UNCHANGED <<backend, max_sessions, _lock, callers, sessions, now, recent,
                   handlerVars, toolVars>>

\* session.add_messages([HumanMessage(...), AIMessage(...)])
ApiAddMessages(o) ==
    /\ o \in 1..Len(heap)
    /\ Len(heap[o].messages) + 2 <= MaxMsgs
    /\ heap' = add_messages(heap, o, <<HumanMessage(<<"q">>), AIMessage(<<"a">>)>>, now)
    /\ ret' = Result("add_messages", heap[o].session_id,
                     Lookup(sessions, heap, heap[o].session_id), o)
    /\ UNCHANGED <<backend, max_sessions, _lock, callers, sessions, now, recent,
                   handlerVars, toolVars>>

\* session.clear_messages()
ApiClearMessages(o) ==
    /\ o \in 1..Len(heap)
    /\ heap' = clear_messages(heap, o, now)
    /\ ret' = Result("clear_messages", heap[o].session_id,
                     Lookup(sessions, heap, heap[o].session_id), o)
    /\ UNCHANGED <<backend, max_sessions, _lock, callers, sessions, now, recent,
                   handlerVars, toolVars>>

\* the default store and a client that keeps the session it has built: it
\* reads it, changes it without saving, saves it, and time passes
NextTouch ==
    \/ \E id \in TurnIds : ApiSaveNew(id, <<>>, MaxObjs - 1)
    \/ \E o \in 1..(MaxObjs - 1) : ApiSave(o)
    \/ \E id \in TurnIds : ApiGet(id)
    \/ \E o \in 1..(MaxObjs - 1) : ApiAddMessage(o)
    \/ \E o \in 1..(MaxObjs - 1) : ApiAddMessages(o)
    \/ \E o \in 1..(MaxObjs - 1) : ApiClearMessages(o)
    \/ Tick

SpecTouch == InitStoreWith({DefaultMaxSessions}) /\ [][NextTouch]_vars

(***************************************************************************)
(* session/memory.py, statement by statement: several callers of one       *)
(* store.  Every operation is "async with self._lock:" around a body, and  *)
(* a caller is at one statement of the body of its call.  S0 and H0 are    *)
(* the map and the objects as the caller found them when it took the lock, *)
(* t0 is the utcnow() its body read.                                       *)
(***************************************************************************)
Callers == {"t1", "t2"}

IdleCaller ==
    [pc |-> "idle", op |-> "", id |-> "", o |-> None, S0 |-> <<>>, H0 |-> <<>>,
     t0 |-> 0, expired |-> <<>>, val |-> None]

\* the first statement of the body of an operation
Body(op) ==
    CASE op = "save" -> "stamp"
      [] op = "get" -> "lookup"
      [] op = "delete" -> "pop"
      [] op = "cleanup_expired" -> "scan"

\* a slip: the body is entered whether or not the lock is held
EnterUnlocked(t) == callers[t].pc = "idle"

\* async with self._lock: an idle caller enters when the lock is free
Enter(t) == callers[t].pc = "idle" /\ _lock = NoCaller

\* await store.get(id), store.delete(id) or store.cleanup_expired(), up to
\* the first statement of the body
Call(t, op, id) ==
    /\ Enter(t)
    /\ _lock' = t
    /\ callers' = [callers EXCEPT ![t] =
           [IdleCaller EXCEPT !.pc = Body(op), !.op = op, !.id = id,
                              !.S0 = sessions, !.H0 = heap]]
    /\ UNCHANGED <<backend, max_sessions, sessions, heap, now, ret, recent,
                   handlerVars, toolVars>>

\* await store.save(Session(session_id=id)), up to the first statement of
\* the body
CallSave(t, id) ==
    /\ Enter(t)
    /\ Len(heap) < MaxObjs
    /\ heap' = Append(heap, Session(id, now))
    /\ _lock' = t
    /\ callers' = [callers EXCEPT ![t] =
           [IdleCaller EXCEPT !.pc = Body("save"), !.op = "save", !.id = id,
                              !.o = Len(heap) + 1, !.S0 = sessions, !.H0 = heap']]
    /\ UNCHANGED <<backend, max_sessions, sessions, now, ret, recent,
                   handlerVars, toolVars>>

\* the caller t goes on to the statement pc
Goto(t, pc) == callers' = [callers EXCEPT ![t].pc = pc]

\* save: session.updated_at = datetime.utcnow()
SaveStamp(t) ==
    /\ callers[t].pc = "stamp"
    /\ heap' = [heap EXCEPT ![callers[t].o].updated_at = now]
    /\ callers' = [callers EXCEPT ![t].pc = "remove", ![t].t0 = now]
    /\ UNCHANGED <<backend, max_sessions, _lock, sessions, now, ret, recent,
                   handlerVars, toolVars>>

\* save: if session.session_id in self._sessions: del self._sessions[...]
SaveRemove(t) ==
    /\ callers[t].pc = "remove"
    /\ sessions' = DelKey(sessions, heap, callers[t].id)
    /\ Goto(t, "evict")
    /\ UNCHANGED <<backend, max_sessions, _lock, heap, now, ret, recent,
                   handlerVars, toolVars>>

\* save: while len(self._sessions) >= self.max_sessions: popitem(last=False)
SaveEvict(t) ==
    /\ callers[t].pc = "evict"
    /\ IF Len(sessions) >= max_sessions /\ Len(sessions) > 0
       THEN sessions' = Tail(sessions) /\ UNCHANGED callers
       ELSE Goto(t, "put") /\ UNCHANGED sessions
    /\ UNCHANGED <<backend, max_sessions, _lock, heap, now, ret, recent,
                   handlerVars, toolVars>>

\* save: self._sessions[session.session_id] = session
SavePut(t) ==
    /\ callers[t].pc = "put"
    /\ sessions' = IF callers[t].id \in Keys(sessions, heap)
                   THEN [i \in 1..Len(sessions) |->
                            IF heap[sessions[i]].session_id = callers[t].id
                            THEN callers[t].o ELSE sessions[i]]
                   ELSE Append(sessions, callers[t].o)
    /\ callers' = [callers EXCEPT ![t].pc = "release", ![t].val = callers[t].o]
    /\ UNCHANGED <<backend, max_sessions, _lock, heap, now, ret, recent,
                   handlerVars, toolVars>>

\* get: session = self._sessions.get(session_id); if session is None:
\* return None; the expiry test
GetLookup(t) ==
    /\ callers[t].pc = "lookup"
    /\ LET o == Lookup(sessions, heap, callers[t].id) IN
       callers' = [callers EXCEPT
           ![t].o = o, ![t].t0 = now,
           ![t].pc = IF o = None THEN "release"
                     ELSE IF IsExpired(heap, o, now) THEN "expire" ELSE "move"]
    /\ UNCHANGED <<backend, max_sessions, _lock, sessions, heap, now, ret, recent,
                   handlerVars, toolVars>>

\* get: del self._sessions[session_id]; return None
GetExpire(t) ==
    /\ callers[t].pc = "expire"
    /\ sessions' = DelKey(sessions, heap, callers[t].id)
    /\ Goto(t, "release")
    /\ UNCHANGED <<backend, max_sessions, _lock, heap, now, ret, recent,
                   handlerVars, toolVars>>

\* get: self._sessions.move_to_end(session_id); return session (a KeyError
\* if the key is gone)
GetMove(t) ==
    /\ callers[t].pc = "move"
    /\ IF callers[t].id \in Keys(sessions, heap)
       THEN /\ sessions' = move_to_end(sessions, heap, callers[t].id)
            /\ callers' = [callers EXCEPT ![t].pc = "release",
                                          ![t].val = callers[t].o]
       ELSE Goto(t, "release") /\ UNCHANGED sessions
    /\ UNCHANGED <<backend, max_sessions, _lock, heap, now, ret, recent,
                   handlerVars, toolVars>>

\* delete: self._sessions.pop(session_id, None)
DeletePop(t) ==
    /\ callers[t].pc = "pop"
    /\ sessions' = DelKey(sessions, heap, callers[t].id)
    /\ Goto(t, "release")
    /\ UNCHANGED <<backend, max_sessions, _lock, heap, now, ret, recent,
                   handlerVars, toolVars>>

\* cleanup_expired: now = utcnow(); expired = [sid for sid, session in
\* self._sessions.items() if now - session.updated_at > timedelta(ttl)]
CleanupScan(t) ==
    /\ callers[t].pc = "scan"
    /\ LET old == SelectSeq(sessions, LAMBDA o : IsExpired(heap, o, now)) IN
       callers' = [callers EXCEPT
           ![t].pc = "sweep", ![t].t0 = now, ![t].val = Len(old),
           ![t].expired = [i \in 1..Len(old) |-> heap[old[i]].session_id]]
    /\ UNCHANGED <<backend, max_sessions, _lock, sessions, heap, now, ret, recent,
                   handlerVars, toolVars>>

\* cleanup_expired: for sid in expired: del self._sessions[sid]; then
\* return len(expired)
CleanupSweep(t) ==
    /\ callers[t].pc = "sweep"
    /\ IF callers[t].expired # <<>>
       THEN /\ sessions' = DelKey(sessions, heap, Head(callers[t].expired))
            /\ callers' = [callers EXCEPT ![t].expired = Tail(callers[t].expired)]
       ELSE Goto(t, "release") /\ UNCHANGED sessions
    /\ UNCHANGED <<backend, max_sessions, _lock, heap, now, ret, recent,
                   handlerVars, toolVars>>

\* the body has returned: the lock is released and the caller has its value
Release(t) ==
    /\ callers[t].pc = "release"
    /\ _lock' = NoCaller
    /\ callers' = [callers EXCEPT ![t] = IdleCaller]
    /\ ret' = Result(callers[t].op, callers[t].id,
                     Lookup(callers[t].S0, callers[t].H0, callers[t].id),
                     callers[t].val)
    /\ UNCHANGED <<backend, max_sessions, sessions, heap, now, recent,
                   handlerVars, toolVars>>

InitLock ==
    /\ backend = "memory"
    /\ max_sessions \in 1..MaxCapacity
    /\ _lock = NoCaller
    /\ callers = [t \in Callers |-> IdleCaller]
    /\ sessions = <<>>
    /\ heap = <<>>
    /\ now = 0
    /\ ret = Result("init", "", None, None)
    /\ recent = <<>>
    /\ rdb = NoKeys
    /\ conn = [c \in Conns |-> IdleConn]
    /\ tools_config = <<>>
    /\ adapters = NoKeys
    /\ exec = IdleExec
    /\ exec2 = IdleExec
    /\ clients = <<>>

NextLock ==
    \/ \E t \in Callers, id \in StoreIds : CallSave(t, id)
    \/ \E t \in Callers, id \in StoreIds : Call(t, "get", id)
    \/ \E t \in Callers, id \in StoreIds : Call(t, "delete", id)
    \/ \E t \in Callers : Call(t, "cleanup_expired", "")
    \/ \E t \in Callers : SaveStamp(t)
    \/ \E t \in Callers : SaveRemove(t)
    \/ \E t \in Callers : SaveEvict(t)
    \/ \E t \in Callers : SavePut(t)
    \/ \E t \in Callers : GetLookup(t)
    \/ \E t \in Callers : GetExpire(t)
    \/ \E t \in Callers : GetMove(t)
    \/ \E t \in Callers : DeletePop(t)
    \/ \E t \in Callers : CleanupScan(t)
    \/ \E t \in Callers : CleanupSweep(t)
    \/ \E t \in Callers : Release(t)
    \/ Tick

SpecLock == InitLock /\ [][NextLock]_vars

\* the caller t is inside the body of an operation
InBody(t) == callers[t].pc # "idle"

\* what the operation of a caller does when nothing else runs between its
\* first statement and its last: the map, the objects and the value
Atomic(K, cap) ==
    CASE K.op = "save" ->
           LET sv == MemSave(K.S0, K.H0, K.o, K.t0, cap)
           IN  [sessions |-> sv.sessions, heap |-> sv.heap, val |-> K.o]
      [] K.op = "get" ->
           LET g == MemGet(K.S0, K.H0, K.id, K.t0)
           IN  [sessions |-> g.sessions, heap |-> K.H0, val |-> g.val]
      [] K.op = "delete" ->
           [sessions |-> MemDelete(K.S0, K.H0, K.id), heap |-> K.H0, val |-> None]
      [] K.op = "cleanup_expired" ->
           LET c == MemCleanup(K.S0, K.H0, K.t0)
           IN  [sessions |-> c.sessions, heap |-> K.H0, val |-> c.val]

\* C30: the operations of one in-process store exclude each other: at most
\* one caller is inside a body, a caller enters only on a map no save has
\* half applied, and when an operation returns, the map with its recency
\* order, the objects and the value returned are those of the whole
\* operation applied to the store as the caller found it, so that the
\* calls took effect one after the other in the order they took the lock
C30_MutuallyExclusive ==
    [][\A t \in Callers :
          /\ \A u \in Callers \ {t} : ~(InBody(t)' /\ InBody(u)')
          /\ (~InBody(t) /\ InBody(t)') =>
                 \A u \in Callers \ {t} : ~InBody(u)
          /\ (callers[t].pc = "release" /\ ~InBody(t)') =>
                 LET a == Atomic(callers[t], max_sessions) IN
                 /\ sessions' = a.sessions
                 /\ heap' = a.heap
                 /\ callers[t].val = a.val]_vars

\* a save that removed the entry of its id, evicted the oldest entry and
\* put its session has returned, after another caller's operation
C30_Witness ==
    /\ ret.op = "save"
    /\ ret.had # None
    /\ Len(heap) = MaxObjs
    /\ \A t \in Callers : ~InBody(t)
    /\ now > 0

\* a client that builds sessions, stores, reads and deletes them while time
\* passes; what it saves again is the session its last call handed it
NextStore ==
    \/ \E id \in StoreIds, msgs \in NewMessages : ApiSaveNew(id, msgs, MaxObjs)
    \/ \E o \in 1..MaxObjs : ret.val = o /\ ret.op # "cleanup_expired" /\ ApiSave(o)
    \/ \E id \in StoreIds : ApiGet(id)
    \/ \E id \in StoreIds : ApiGetOrCreate(id)
    \/ \E id \in StoreIds : ApiDelete(id)
    \/ ApiCleanup
    \/ Tick

\* a store of one session, and the default store
InitStore == InitStoreWith({1, DefaultMaxSessions})

SpecStore == InitStore /\ [][NextStore]_vars

(***************************************************************************)
(* The turns of a connection.                                              *)
(***************************************************************************)
InitTurn ==
    /\ backend \in {"memory", "redis"}
    /\ max_sessions = DefaultMaxSessions
    /\ _lock = NoCaller
    /\ callers = <<>>
    /\ sessions = <<>>
    /\ heap = <<>>
    /\ now = 0
    /\ ret = Result("init", "", None, None)
    /\ recent = <<>>
    /\ rdb = NoKeys
    /\ conn = [c \in Conns |-> IdleConn]
    /\ tools_config = <<>>
    /\ adapters = NoKeys
    /\ exec = IdleExec
    /\ exec2 = IdleExec
    /\ clients = <<>>

\* one connection, turn after turn, within one ttl (no session expires
\* between its turns; expiry is the subject of SpecStore)
NextTurn == TurnStep("c1")

SpecTurn == InitTurn /\ [][NextTurn]_vars

(***************************************************************************)
(* The tool dispatcher on its own.                                         *)
(***************************************************************************)
InitTool ==
    /\ backend = "memory"
    /\ max_sessions = DefaultMaxSessions
    /\ _lock = NoCaller
    /\ callers = <<>>
    /\ sessions = <<>>
    /\ heap = <<>>
    /\ now = 0
    /\ ret = Result("init", "", None, None)
    /\ recent = <<>>
    /\ rdb = NoKeys
    /\ conn = [c \in Conns |-> IdleConn]
    /\ tools_config \in Configs
    /\ adapters = NoKeys
    /\ exec = IdleExec
    /\ exec2 = IdleExec
    /\ clients = <<>>

NextTool ==
    \/ Initialize
    \/ \E name \in ToolNames : ExecuteCall(name)
    \/ \E o \in Outcomes : AdapterOutcome(o)

SpecTool == InitTool /\ [][NextTool]_vars

\* two calls of execute at a time, each suspended in its adapter while the
\* other runs
NextToolPair ==
    \/ Initialize
    \/ \E name \in ToolNames : ExecuteCall(name)
    \/ \E o \in Outcomes : AdapterOutcome(o)
    \/ \E name \in ToolNames : ExecuteCallBeside(name)
    \/ \E o \in Outcomes : AdapterOutcomeBeside(o)

SpecToolPair == InitTool /\ [][NextToolPair]_vars

\* tools.yaml with one handler definition at most
TurnConfigs == {cfg \in Configs : Len(cfg) <= 1}

\* self._adapters.values(): the keys in the order of their first insertion
RECURSIVE RegistryOrder(_, _)
RegistryOrder(cfg, n) ==
    IF n = 0 THEN <<>>
    ELSE LET O == RegistryOrder(cfg, n - 1)
             h == cfg[n]
         IN  IF h.type = "http" /\ tool_name(h) \notin {O[i] : i \in 1..Len(O)}
             THEN Append(O, tool_name(h))
             ELSE O

\* the loop of ToolManager.close from the i-th adapter on; fail names the
\* adapter whose client.aclose() raises.  HTTPToolAdapter.close: aclose and
\* self._client = None, when there is a client
RECURSIVE CloseFrom(_, _, _, _, _)
CloseFrom(R, order, i, C, fail) ==
    IF i > Len(order) THEN [clients |-> C, raised |-> FALSE]
    ELSE LET a == R[order[i]] IN
         IF C[a] # "open" THEN CloseFrom(R, order, i + 1, C, fail)
         ELSE IF order[i] = fail THEN [clients |-> C, raised |-> TRUE]
         ELSE CloseFrom(R, order, i + 1, [C EXCEPT ![a] = "released"], fail)

\* ToolManager.close: every adapter is closed, then self._adapters.clear();
\* an exception leaves the loop and the method
Close(fail) ==
    /\ exec.pc # "attempt"
    /\ ret.val < MaxCloses
    /\ LET order == IF adapters = NoKeys THEN <<>>
                    ELSE RegistryOrder(tools_config, Len(tools_config))
           r == CloseFrom(adapters, order, 1, clients, fail)
       IN  /\ clients' = r.clients
           /\ adapters' = IF r.raised THEN adapters ELSE NoKeys
           /\ ret' = Result(IF r.raised THEN "close raised" ELSE "close", fail,
                            None, ret.val + 1)
    /\ UNCHANGED <<backend, max_sessions, _lock, callers, sessions, heap, now, recent,
                   handlerVars, tools_config, exec, exec2>>

\* the dispatcher in use and shut down: close may be called again, and the
\* aclose of one adapter's client may raise
NextClose ==
    \/ NextTool
    \/ \E fail \in ToolNames \cup {NoTool} : Close(fail)

SpecClose == InitTool /\ [][NextClose]_vars

\* LangChainHandler.initialize has run: the registry is built
InitToolTurn ==
    /\ backend = "memory"
    /\ max_sessions = DefaultMaxSessions
    /\ _lock = NoCaller
    /\ callers = <<>>
    /\ sessions = <<>>
    /\ heap = <<>>
    /\ now = 0
    /\ ret = Result("init", "", None, None)
    /\ recent = <<>>
    /\ rdb = NoKeys
    /\ conn = [c \in Conns |-> IdleConn]
    /\ tools_config \in TurnConfigs
    /\ adapters = Registry(tools_config, Len(tools_config))
    /\ exec = IdleExec
    /\ exec2 = IdleExec
    /\ clients = NoClients(tools_config)

\* turns of one connection on the in-process store, the agent calling tools
\* and streaming text
NextToolTurn ==
    \/ \E id \in TurnIds, content \in Contents : StartTurn("c1", id, content)
    \/ LoadMemory("c1", TRUE)
    \/ \E name \in ToolNames : ToolRun("c1", name)
    \/ \E o \in Outcomes : AdapterOutcome(o)
    \/ ToolEnd("c1")
    \/ AgentEvent("c1", Event("on_chat_model_stream", <<"a">>, <<>>, TRUE))
    \/ EndMemory("c1")

SpecToolTurn == InitToolTurn /\ [][NextToolTurn]_vars

(***************************************************************************)
(* tools/http.py: HTTPToolAdapter._parse_timeout, on the timeout strings   *)
(* of handler definitions.                                                 *)
(***************************************************************************)
Digits == {"0", "2"}

TimeoutChars == Digits \cup {"s", "m", "h", "x"}

TimeoutStrings == SeqsUpTo(TimeoutChars, MaxTimeoutLen)

DefaultTimeout == 30

endswith(str, c) == Len(str) > 0 /\ str[Len(str)] = c

\* timeout_str[:-1]
Front(str) == SubSeq(str, 1, Len(str) - 1)

DigitValue(c) == IF c = "2" THEN 2 ELSE 0

RECURSIVE Numeral(_)
Numeral(str) ==
    IF str = <<>> THEN 0 ELSE 10 * Numeral(Front(str)) + DigitValue(str[Len(str)])

IsNumeral(str) == str # <<>> /\ \A i \in 1..Len(str) : str[i] \in Digits

\* what a call ends in: a value returned, or ValueError raised
Returned(v) == [raised |-> FALSE, value |-> v]
ValueError == [raised |-> TRUE, value |-> 0]

\* float(x) times k, on these characters: a numeral, or ValueError
float(str, k) == IF IsNumeral(str) THEN Returned(Numeral(str) * k) ELSE ValueError

\* HTTPToolAdapter._parse_timeout
_parse_timeout(timeout_str) ==
    IF endswith(timeout_str, "s") THEN float(Front(timeout_str), 1)
    ELSE IF endswith(timeout_str, "m") THEN float(Front(timeout_str), 60)
    ELSE IF endswith(timeout_str, "h") THEN float(Front(timeout_str), 3600)
    ELSE IF float(timeout_str, 1).raised THEN Returned(DefaultTimeout)
    ELSE float(timeout_str, 1)

InitTimeout ==
    /\ backend = "memory"
    /\ max_sessions = DefaultMaxSessions
    /\ _lock = NoCaller
    /\ callers = <<>>
    /\ sessions = <<>>
    /\ heap = <<>>
    /\ now = 0
    /\ ret \in {Result("init", str, None, None) : str \in TimeoutStrings}
    /\ recent = <<>>
    /\ rdb = NoKeys
    /\ conn = [c \in Conns |-> IdleConn]
    /\ tools_config = <<>>
    /\ adapters = NoKeys
    /\ exec = IdleExec
    /\ exec2 = IdleExec
    /\ clients = <<>>

\* HTTPToolAdapter.__init__: self.timeout = self._parse_timeout(handler.timeout)
ParseTimeout ==
    /\ ret.op = "init"
    /\ ret' = Result("_parse_timeout", ret.id, None, _parse_timeout(ret.id))
    /\ UNCHANGED <<backend, max_sessions, _lock, callers, sessions, heap, now, recent,
                   handlerVars, toolVars>>

NextTimeout == ParseTimeout

SpecTimeout == InitTimeout /\ [][NextTimeout]_vars

(***************************************************************************)
(* tools/manager.py: ToolManager.initialize over the handler definitions   *)
(* of a tools.yaml, each with its timeout string.                          *)
(***************************************************************************)
HandlerNames == <<"h1", "h2", "h3">>

\* "2s", and a string _parse_timeout raises on
InitTimeouts == {<<"2", "s">>, <<"m">>}

\* what tools.yaml says of one handler, but for its name: the type, the name
\* of the tool block (a tool may be named as another handler is) and timeout
InitShapes ==
    {[type |-> ty, tool |-> tl, timeout |-> to] :
        ty \in {"http", "grpc"}, tl \in {NoTool, "t1", "h1"}, to \in InitTimeouts}

InitConfigs ==
    {[i \in 1..Len(sh) |->
         [name |-> HandlerNames[i], type |-> sh[i].type, tool |-> sh[i].tool,
          retries |-> 0, timeout |-> sh[i].timeout]] :
        sh \in SeqsUpTo(InitShapes, Len(HandlerNames))}

\* _create_adapter(handler) raises: HTTPToolAdapter.__init__ parses the
\* timeout; a handler of another type is not constructed
CreateRaises(h) == h.type = "http" /\ _parse_timeout(h.timeout).raised

\* the handlers the loop of initialize gets through
Reached(cfg) ==
    LET bad == {i \in 1..Len(cfg) : CreateRaises(cfg[i])} IN
    IF bad = {} THEN Len(cfg) ELSE (CHOOSE i \in bad : \A j \in bad : i <= j) - 1

InitInitialize ==
    /\ backend = "memory"
    /\ max_sessions = DefaultMaxSessions
    /\ _lock = NoCaller
    /\ callers = <<>>
    /\ sessions = <<>>
    /\ heap = <<>>
    /\ now = 0
    /\ ret = Result("init", "", None, None)
    /\ recent = <<>>
    /\ rdb = NoKeys
    /\ conn = [c \in Conns |-> IdleConn]
    /\ tools_config \in InitConfigs
    /\ adapters = NoKeys
    /\ exec = IdleExec
    /\ exec2 = IdleExec
    /\ clients = <<>>

\* await tool_manager.initialize(): it returns, or the constructor of an
\* adapter raises and the loop is left
InitializeCall ==
    /\ ret.op = "init"
    /\ adapters' = Registry(tools_config, Reached(tools_config))
    /\ clients' = NoClients(tools_config)
    /\ ret' = Result(IF Reached(tools_config) < Len(tools_config)
                     THEN "initialize raised" ELSE "initialize", "", None, None)
    /\ UNCHANGED <<backend, max_sessions, _lock, callers, sessions, heap, now, recent,
                   handlerVars, tools_config, exec, exec2>>

NextInitialize == InitializeCall

SpecInitialize == InitInitialize /\ [][NextInitialize]_vars

(***************************************************************************)
(* tools/http.py: HTTPToolAdapter.execute, one HTTP call and what the      *)
(* adapter makes of its result.                                            *)
(***************************************************************************)
Statuses == {200, 204, 301, 304, 400, 404, 499, 500, 503}

\* the exception classes client.request raises, with their base classes
\* (httpx._exceptions); InvalidURL is no HTTPError
Bases(class) ==
    CASE class \in {"ConnectTimeout", "ReadTimeout"} ->
            {class, "TimeoutException", "TransportError", "RequestError", "HTTPError"}
      [] class \in {"ConnectError", "ReadError"} ->
            {class, "NetworkError", "TransportError", "RequestError", "HTTPError"}
      [] class = "RemoteProtocolError" ->
            {class, "ProtocolError", "TransportError", "RequestError", "HTTPError"}
      [] class = "HTTPStatusError" -> {class, "HTTPError"}
      [] OTHER -> {class}

RequestRaises == {"ConnectTimeout", "ReadTimeout", "ConnectError", "ReadError",
                  "RemoteProtocolError", "InvalidURL"}

\* what "await client.request(...)" ends in: a response with a status and a
\* body that is JSON or not, or an exception
Response(status, is_json) ==
    [kind |-> "response", status |-> status, is_json |-> is_json, class |-> ""]
Raised(class) == [kind |-> "raise", status |-> 0, is_json |-> FALSE, class |-> class]

HttpResults ==
    {Response(st, j) : st \in Statuses, j \in BOOLEAN} \cup {Raised(c) : c \in RequestRaises}

\* ToolAdapterError(message, tool_name=..., is_retryable=...)
ToolAdapterError(msg, name, retryable) ==
    [kind |-> "ToolAdapterError", val |-> msg, tool_name |-> name,
     is_retryable |-> retryable]

\* a slip: client errors are retried as well
RetryableStatusFrom400(status) == status >= 400

\* is_retryable = e.response.status_code >= 500
RetryableStatus(status) == status >= 500

\* response.raise_for_status(): HTTPStatusError unless the status is 2xx
raise_for_status(r) ==
    IF r.kind = "response" /\ r.status \notin 200..299 THEN Raised("HTTPStatusError")
    ELSE r

\* the try of HTTPToolAdapter.execute and its except clauses, in their order
HttpExecute(h, r) ==
    LET e == raise_for_status(r) IN
    IF e.kind = "response"
    THEN [kind |-> "ok", val |-> IF r.is_json THEN "json" ELSE "text",
          tool_name |-> tool_name(h), is_retryable |-> FALSE]
    ELSE IF "TimeoutException" \in Bases(e.class)
    THEN ToolAdapterError("Request timed out", tool_name(h), TRUE)
    ELSE IF "HTTPStatusError" \in Bases(e.class)
    THEN ToolAdapterError("HTTP error", tool_name(h), RetryableStatus(r.status))
    ELSE IF "RequestError" \in Bases(e.class)
    THEN ToolAdapterError("Request failed", tool_name(h), TRUE)
    ELSE [kind |-> e.class, val |-> "", tool_name |-> "", is_retryable |-> FALSE]

\* one http handler definition, its adapter registered
InitHttp ==
    /\ backend = "memory"
    /\ max_sessions = DefaultMaxSessions
    /\ _lock = NoCaller
    /\ callers = <<>>
    /\ sessions = <<>>
    /\ heap = <<>>
    /\ now = 0
    /\ ret = Result("init", "", None, None)
    /\ recent = <<>>
    /\ rdb = NoKeys
    /\ conn = [c \in Conns |-> IdleConn]
    /\ tools_config \in {cfg \in TurnConfigs : Len(cfg) = 1 /\ cfg[1].type = "http"}
    /\ adapters = Registry(tools_config, Len(tools_config))
    /\ exec = IdleExec
    /\ exec2 = IdleExec
    /\ clients = NoClients(tools_config)

\* await adapter.execute(arguments): the call, and how the server answers
AdapterExecute(name, r) ==
    /\ name \in DOMAIN adapters
    /\ clients' = _get_client(clients, adapters[name])
    /\ ret' = Result("execute", name, r, HttpExecute(tools_config[adapters[name]], r))
    /\ UNCHANGED <<backend, max_sessions, _lock, callers, sessions, heap, now, recent,
                   handlerVars, tools_config, adapters, exec, exec2>>

NextHttp == \E name \in ToolNames, r \in HttpResults : AdapterExecute(name, r)

SpecHttp == InitHttp /\ [][NextHttp]_vars

(***************************************************************************)
(* config.py and __main__.py: load_config over the environment, and what   *)
(* main creates after it.                                                  *)
(***************************************************************************)
NoEnv == "<unset>"      \* os.getenv(name) is None

\* the environments tried: the variables load_config validates
Environments ==
    [OMNIA_AGENT_NAME : {NoEnv, "", "a"},
     OMNIA_NAMESPACE : {NoEnv, "n"},
     OMNIA_SESSION_TYPE : {NoEnv, "memory", "REDIS", "bogus"},
     OMNIA_SESSION_URL : {NoEnv, "u"},
     OMNIA_SESSION_TTL : {NoEnv, "7", "x"},
     OMNIA_CONTEXT_WINDOW : {"7", "x"},
     OMNIA_GRPC_PORT : {"7", "x"},
     OMNIA_HEALTH_PORT : {"", "x"},
     OMNIA_PROVIDER_TYPE : {NoEnv, "Claude", "openai", "gemini", "ollama", "bogus"},
     ANTHROPIC_API_KEY : {NoEnv, "k"},
     OPENAI_API_KEY : {"", "k"},
     GOOGLE_API_KEY : {NoEnv, "k"}]

\* os.getenv(name, default)
getenv(env, name, default) == IF env[name] = NoEnv THEN default ELSE env[name]

\* "not value": the variable is unset or empty
Falsy(v) == v = NoEnv \/ v = ""

\* str.lower, on the values tried
lower(v) ==
    CASE v = "REDIS" -> "redis"
      [] v = "Claude" -> "claude"
      [] OTHER -> v

\* int(value), on the values tried: 7, or ValueError
IsInt(v) == v = "7"

SessionTypes == {"memory", "redis"}                             \* SessionType
ProviderTypes == {"claude", "openai", "gemini", "ollama", "mock"}   \* ProviderType

\* what load_config ends in
ConfigError(msg) == [raised |-> TRUE, error |-> "ConfigError", msg |-> msg]
NoError == [raised |-> FALSE, error |-> "", msg |-> ""]

\* _get_required(name)
_get_required(env, name) ==
    IF Falsy(env[name]) THEN ConfigError(name) ELSE NoError

\* _parse_int(name, default)
_parse_int(env, name) ==
    IF Falsy(env[name]) \/ IsInt(env[name]) THEN NoError ELSE ConfigError(name)

\* _parse_session_type(os.getenv("OMNIA_SESSION_TYPE", "memory"))
_parse_session_type(env) ==
    IF lower(getenv(env, "OMNIA_SESSION_TYPE", "memory")) \in SessionTypes
    THEN NoError ELSE ConfigError("OMNIA_SESSION_TYPE")

\* _parse_provider_type(os.getenv("OMNIA_PROVIDER_TYPE", "mock"))
_parse_provider_type(env) ==
    IF lower(getenv(env, "OMNIA_PROVIDER_TYPE", "mock")) \in ProviderTypes
    THEN NoError ELSE ConfigError("OMNIA_PROVIDER_TYPE")

\* the Config built from an environment whose values all parse
Config(env) ==
    [agent_name |-> env.OMNIA_AGENT_NAME,
     namespace |-> env.OMNIA_NAMESPACE,
     session_type |-> lower(getenv(env, "OMNIA_SESSION_TYPE", "memory")),
     session_url |-> getenv(env, "OMNIA_SESSION_URL", ""),
     provider_type |-> lower(getenv(env, "OMNIA_PROVIDER_TYPE", "mock")),
     api_keys |-> [anthropic |-> getenv(env, "ANTHROPIC_API_KEY", ""),
                   openai |-> getenv(env, "OPENAI_API_KEY", ""),
                   google |-> getenv(env, "GOOGLE_API_KEY", "")]]

\* a slip: the check of the session URL is missing
_validate_configNoUrl(config) ==
    IF config.provider_type = "claude" /\ config.api_keys.anthropic = ""
    THEN ConfigError("ANTHROPIC_API_KEY")
    ELSE IF config.provider_type = "openai" /\ config.api_keys.openai = ""
    THEN ConfigError("OPENAI_API_KEY")
    ELSE IF config.provider_type = "gemini" /\ config.api_keys.google = ""
    THEN ConfigError("GOOGLE_API_KEY")
    ELSE NoError

\* _validate_config(config)
_validate_config(config) ==
    IF config.session_type = "redis" /\ config.session_url = ""
    THEN ConfigError("OMNIA_SESSION_URL")
    ELSE IF config.provider_type = "claude" /\ config.api_keys.anthropic = ""
    THEN ConfigError("ANTHROPIC_API_KEY")
    ELSE IF config.provider_type = "openai" /\ config.api_keys.openai = ""
    THEN ConfigError("OPENAI_API_KEY")
    ELSE IF config.provider_type = "gemini" /\ config.api_keys.google = ""
    THEN ConfigError("GOOGLE_API_KEY")
    ELSE NoError

\* the first of the checks, in the order they are made, that raises
RECURSIVE FirstError(_)
FirstError(checks) ==
    IF checks = <<>> THEN NoError
    ELSE IF Head(checks).raised THEN Head(checks)
    ELSE FirstError(Tail(checks))

\* load_config: the arguments of Config(...) in their order, then
\* _validate_config
load_config(env) ==
    LET parsed == FirstError(<<_get_required(env, "OMNIA_AGENT_NAME"),
                               _get_required(env, "OMNIA_NAMESPACE"),
                               _parse_session_type(env),
                               _parse_int(env, "OMNIA_SESSION_TTL"),
                               _parse_provider_type(env),
                               _parse_int(env, "OMNIA_CONTEXT_WINDOW"),
                               _parse_int(env, "OMNIA_GRPC_PORT"),
                               _parse_int(env, "OMNIA_HEALTH_PORT")>>)
    IN  IF parsed.raised THEN parsed ELSE _validate_config(Config(env))

\* the process starts: nothing is created yet
InitConfig ==
    /\ backend = "none"
    /\ max_sessions = DefaultMaxSessions
    /\ _lock = NoCaller
    /\ callers = <<>>
    /\ sessions = <<>>
    /\ heap = <<>>
    /\ now = 0
    /\ ret \in {Result("init", env, None, NoError) : env \in Environments}
    /\ recent = <<>>
    /\ rdb = NoKeys
    /\ conn = [c \in Conns |-> IdleConn]
    /\ tools_config = <<>>
    /\ adapters = NoKeys
    /\ exec = IdleExec
    /\ exec2 = IdleExec
    /\ clients = <<>>

\* main: config = load_config()
LoadConfig ==
    /\ ret.op = "init"
    /\ ret' = Result("load_config", ret.id, None, load_config(ret.id))
    /\ UNCHANGED <<backend, max_sessions, _lock, callers, sessions, heap, now, recent,
                   handlerVars, toolVars>>

\* main: handler = LangChainHandler(config), which makes the session store
CreateHandler ==
    /\ ret.op = "load_config" /\ ~ret.val.raised
    /\ backend' = Config(ret.id).session_type
    /\ ret' = Result("LangChainHandler", ret.id, None, NoError)
    /\ UNCHANGED <<max_sessions, _lock, callers, sessions, heap, now, recent, handlerVars, toolVars>>

\* main: asyncio.run(serve(handler, config)) opens the two listeners
Serve ==
    /\ ret.op = "LangChainHandler"
    /\ ret' = Result("serve", ret.id, None, NoError)
    /\ UNCHANGED <<backend, max_sessions, _lock, callers, sessions, heap, now, recent,
                   handlerVars, toolVars>>

\* main: except Exception: return 1
ExitFailure ==
    /\ ret.op = "load_config" /\ ret.val.raised
    /\ ret' = Result("exit", ret.id, None, ret.val)
    /\ UNCHANGED <<backend, max_sessions, _lock, callers, sessions, heap, now, recent,
                   handlerVars, toolVars>>

NextConfig ==
    \/ LoadConfig
    \/ CreateHandler
    \/ Serve
    \/ ExitFailure

SpecConfig == InitConfig /\ [][NextConfig]_vars

(***************************************************************************)
(* Turns on the external cache whose records something else may damage.    *)
(***************************************************************************)
InitRedis ==
    /\ backend = "redis"
    /\ max_sessions = DefaultMaxSessions
    /\ _lock = NoCaller
    /\ callers = <<>>
    /\ sessions = <<>>
    /\ heap = <<>>
    /\ now = 0
    /\ ret = Result("init", "", None, None)
    /\ recent = <<>>
    /\ rdb = NoKeys
    /\ conn = [c \in Conns |-> IdleConn]
    /\ tools_config = <<>>
    /\ adapters = NoKeys
    /\ exec = IdleExec
    /\ exec2 = IdleExec
    /\ clients = <<>>

\* the value under the key is replaced by text _deserialize cannot read
CorruptRecord(id) ==
    /\ id \in DOMAIN rdb
    /\ rdb[id].data # Garbage
    /\ rdb' = [rdb EXCEPT ![id].data = Garbage]
    /\ UNCHANGED <<storeVars, conn, toolVars>>

NextRedis ==
    \/ \E id \in TurnIds, content \in Contents : StartTurn("c1", id, content)
    \/ RedisGetHit("c1", TRUE)
    \/ RedisGetMiss("c1")
    \/ RedisCreated("c1", TRUE)
    \/ AgentEvent("c1", Event("on_chat_model_stream", <<"a">>, <<>>, TRUE))
    \/ EndRedis("c1")
    \/ RedisSaved("c1")
    \/ \E id \in TurnIds : CorruptRecord(id)

SpecRedis == InitRedis /\ [][NextRedis]_vars

(***************************************************************************)
(* Two connections whose turns use the same session id: the calls of       *)
(* get_or_create and save of one may fall between those of the other       *)
(* wherever the store suspends.                                            *)
(***************************************************************************)
RaceStep(c, content) ==
    \/ \E id \in TurnIds : StartTurn(c, id, content)
    \/ LoadMemory(c, TRUE)
    \/ RedisGetHit(c, TRUE)
    \/ RedisGetMiss(c)
    \/ RedisCreated(c, TRUE)
    \/ EndMemory(c)
    \/ EndRedis(c)
    \/ RedisSaved(c)

NextRace ==
    \/ RaceStep("c1", <<"q">>)
    \/ RaceStep("c2", <<"r">>)

SpecRace == InitTurn /\ [][NextRace]_vars

(***************************************************************************)
(* Two connections, one turn each, on the same session id; the agent of    *)
(* each turn streams text of its own.                                      *)
(***************************************************************************)
OverlapStep(c, content, text) ==
    \/ \E id \in TurnIds : conn[c].turns = 0 /\ StartTurn(c, id, content)
    \/ LoadMemory(c, TRUE)
    \/ RedisGetHit(c, TRUE)
    \/ RedisGetMiss(c)
    \/ RedisCreated(c, TRUE)
    \/ AgentEvent(c, Event("on_chat_model_stream", text, <<>>, TRUE))
    \/ EndMemory(c)
    \/ EndRedis(c)
    \/ RedisSaved(c)

NextOverlap ==
    \/ OverlapStep("c1", <<"q">>, <<"a">>)
    \/ OverlapStep("c2", <<"r">>, <<"b">>)

SpecOverlap == InitTurn /\ [][NextOverlap]_vars

(***************************************************************************)
(* Turns of one connection that the client may cancel wherever the turn is *)
(* suspended.                                                              *)
(***************************************************************************)
NextCancel ==
    \/ \E id \in TurnIds, content \in Contents : StartTurn("c1", id, content)
    \/ LoadMemory("c1", TRUE)
    \/ RedisGetHit("c1", TRUE)
    \/ RedisGetMiss("c1")
    \/ RedisCreated("c1", TRUE)
    \/ \E t \in {<<"a">>, <<"b">>} :
          AgentEvent("c1", Event("on_chat_model_stream", t, <<>>, TRUE))
    \/ EndMemory("c1")
    \/ EndRedis("c1")
    \/ RedisSaved("c1")
    \/ Cancel("c1")
    \/ CancelAfterWrite("c1")

SpecCancel == InitTurn /\ [][NextCancel]_vars

(***************************************************************************)
(* The record codec of the external cache: a session some client built is  *)
(* saved, and read back into a new Session object.                         *)
(***************************************************************************)
\* plain text, or a sequence of typed parts
CodecContents == {<<"q">>, <<"text", "image_url">>}

CodecDicts == {NoMetadata, {<<"k", "v">>}}

\* the four classes the codec names, and one it does not (ChatMessage)
CodecRoles == {"user", "assistant", "system", "tool", "chat"}

CodecMessages ==
    {BaseMessage(r, c, k, IF r = "tool" THEN "call1" ELSE NoId) :
        r \in CodecRoles, c \in CodecContents, k \in CodecDicts}

CodecSessions ==
    {[session_id |-> "s1", messages |-> m, metadata |-> md,
      created_at |-> t, updated_at |-> t] :
        m \in SeqsUpTo(CodecMessages, MaxCodecMsgs), md \in CodecDicts,
        t \in 0..MaxTime}

InitCodec ==
    /\ backend = "redis"
    /\ max_sessions = DefaultMaxSessions
    /\ _lock = NoCaller
    /\ callers = <<>>
    /\ sessions = <<>>
    /\ heap \in {<<s>> : s \in CodecSessions}
    /\ now = MaxTime
    /\ ret = Result("init", "", None, None)
    /\ recent = <<>>
    /\ rdb = NoKeys
    /\ conn = [c \in Conns |-> IdleConn]
    /\ tools_config = <<>>
    /\ adapters = NoKeys
    /\ exec = IdleExec
    /\ exec2 = IdleExec
    /\ clients = <<>>

\* await store.save(session) on the external cache
CodecSave ==
    /\ ret.op = "init"
    /\ LET sv == RedisSave(rdb, heap, 1, now)
       IN  /\ rdb' = sv.rdb
           /\ heap' = sv.heap
    /\ ret' = Result("save", heap[1].session_id, None, 1)
    /\ UNCHANGED <<backend, max_sessions, _lock, callers, sessions, now, recent, conn, toolVars>>

\* await store.get(id) on the external cache: a new Session object
CodecGet ==
    /\ ret.op = "save"
    /\ LET g == RedisGet(rdb, ret.id, now)
       IN  /\ g.found
           /\ heap' = Append(heap, g.session)
           /\ ret' = Result("get", ret.id, 1, Len(heap) + 1)
    /\ UNCHANGED <<backend, max_sessions, _lock, callers, sessions, now, recent, rdb, conn, toolVars>>

NextCodec ==
    \/ CodecSave
    \/ CodecGet

SpecCodec == InitCodec /\ [][NextCodec]_vars

(***************************************************************************)
(* Properties of the session store.                                        *)
(***************************************************************************)
StoredIds == [i \in 1..Len(sessions) |-> heap[sessions[i]].session_id]

Retrievable == {id \in Ids : MemGet(sessions, heap, id, now).val # None}

LastN(s, n) == IF Len(s) <= n THEN s ELSE SubSeq(s, Len(s) - n + 1, Len(s))

Range(s) == {s[i] : i \in 1..Len(s)}

\* C1: with capacity C and no expiry, once the saves have touched more than C
\* distinct ids, exactly the C most recently used ids are retrievable by get
\* and every other id is absent; the map holds them least recently used
\* first, so each eviction removes the least recently used id.
C1_LruKeepsMostRecent ==
    /\ Retrievable = Range(LastN(recent, max_sessions))
    /\ StoredIds = LastN(recent, max_sessions)
    /\ Len(recent) > max_sessions => Cardinality(Retrievable) = max_sessions

C1_Witness ==
    /\ max_sessions = 2
    /\ Len(recent) = 3
    /\ ret.op = "get" /\ ret.val = None /\ ret.id = recent[1]

\* C2: a get on a stored id with now - updated_at > ttl returns absent and
\* removes the entry; the id then stays absent, and get keeps returning
\* absent for it, until a save puts it back; a get on a stored id with
\* now - updated_at <= ttl returns the stored session.
C2_ExpiredGetRemoves ==
    [][ /\ ret'.op = "get" /\ ret'.had # None /\ now' - heap'[ret'.had].updated_at > TTL
           => ret'.val = None /\ ret'.id \notin Keys(sessions', heap')
        /\ ret'.op = "get" /\ ret'.had # None /\ now' - heap'[ret'.had].updated_at <= TTL
           => ret'.val = ret'.had /\ ret'.id \in Keys(sessions', heap')
        /\ ret'.op = "get" /\ ret'.had = None => ret'.val = None
        /\ \A id \in Ids :
             id \notin Keys(sessions, heap) /\ id \in Keys(sessions', heap')
             => ret'.op \in {"save", "get_or_create"} /\ ret'.id = id
      ]_vars

C2_Witness ==
    /\ ret.op = "get" /\ ret.had # None /\ ret.val = None
    /\ now - heap[ret.had].updated_at > TTL
    /\ ret.id \notin Keys(sessions, heap)

\* C3: get_or_create on an id that is absent (not stored, or stored and
\* expired) returns a new session with that id and no messages, and has saved
\* it: a get on that id right afterwards returns the same session.
C3_GetOrCreateFresh ==
    ret.op = "get_or_create" /\ (ret.had = None \/ IsExpired(heap, ret.had, now))
    => /\ ret.val # None /\ ret.val # ret.had
       /\ heap[ret.val].session_id = ret.id
       /\ heap[ret.val].messages = <<>>
       /\ MemGet(sessions, heap, ret.id, now).val = ret.val

C3_Witness ==
    /\ ret.op = "get_or_create" /\ ret.had # None
    /\ IsExpired(heap, ret.had, now)
    /\ heap[ret.had].messages # <<>>
    /\ heap[ret.val].messages = <<>>

\* C15: get_or_create on an id that is stored and not expired returns the
\* stored Session object itself, creates no session and changes none (its
\* messages are intact), and stores nothing new; a second get_or_create on
\* the same id right after a first returns the same session.
C15_GetOrCreateExisting ==
    [][/\ (/\ ret'.op = "get_or_create"
            /\ ret'.had # None
            /\ ~IsExpired(heap, ret'.had, now))
           => /\ ret'.val = ret'.had
              /\ heap' = heap
              /\ Keys(sessions', heap') = Keys(sessions, heap)
              /\ Len(sessions') = Len(sessions)
       /\ (/\ ret.op = "get_or_create"
            /\ ret'.op = "get_or_create"
            /\ ret'.id = ret.id)
           => ret'.val = ret.val]_vars

C15_Witness ==
    /\ ret.op = "get_or_create"
    /\ ret.had # None /\ ret.val = ret.had
    /\ heap[ret.val].messages # <<>>
    /\ now > heap[ret.val].updated_at

\* C16: delete(id) on a stored id removes that entry and no other, keeping
\* the order of the rest; from then on a get of the id returns absent, and the
\* id is stored again only by a save of that id (save, or the save inside
\* get_or_create).  delete(id) on an id that is not stored is a step like any
\* other (nothing is raised) that leaves the entries, their order and the
\* sessions as they were.
C16_DeleteRemoves ==
    [][/\ ret'.op = "delete"
          => /\ ret'.id \notin Keys(sessions', heap')
             /\ MemGet(sessions', heap', ret'.id, now').val = None
             /\ heap' = heap
             /\ sessions' = SelectSeq(sessions, LAMBDA o : o # ret'.had)
             /\ ret'.had = None => sessions' = sessions
       /\ \A id \in StoreIds :
             id \notin Keys(sessions, heap) /\ id \in Keys(sessions', heap')
             => ret'.op \in {"save", "get_or_create"} /\ ret'.id = id
       /\ ret'.op = "get" /\ ret'.had = None => ret'.val = None]_vars

C16_Witness ==
    /\ ret.op = "delete"
    /\ ret.had # None
    /\ ~IsExpired(heap, ret.had, now)
    /\ Len(sessions) = 1
    /\ Len(heap) = 2

\* C24: a get that finds its id moves that entry to the most recently used
\* end and leaves the order of the others; so when the store is full and a
\* new id is saved right after get(x), the entry evicted is the oldest of
\* the others (the second-oldest before the get, when x was the oldest) and
\* x stays.  A get that returns absent, for an id not stored or expired,
\* leaves the other entries and their order as they were.
C24_GetPromotes ==
    [][/\ ret'.op = "get" /\ ret'.val # None
          => sessions' = Append(SelectSeq(sessions, LAMBDA o : o # ret'.val), ret'.val)
       /\ ret'.op = "get" /\ ret'.val = None
          => sessions' = SelectSeq(sessions, LAMBDA o : o # ret'.had)
       /\ (/\ ret.op = "get" /\ ret.val # None
           /\ ret'.op = "save" /\ ret'.had = None
           /\ Len(sessions) = max_sessions /\ Len(sessions) >= 2)
          => /\ sessions' = Append(Tail(sessions), ret'.val)
             /\ ret.val \in Range(sessions')
             /\ sessions[1] \notin Range(sessions')]_vars

C24_Witness ==
    /\ ret.op = "save" /\ ret.id = "s3"
    /\ recent = <<"s2", "s1", "s3">>
    /\ StoredIds = <<"s1", "s3">>
    /\ heap[1].session_id = "s1" /\ heap[2].session_id = "s2"
    /\ sessions = <<1, 3>>
    /\ now = 1

\* the place of the object o in the map
Pos(S, o) == CHOOSE i \in 1..Len(S) : S[i] = o

\* C29: cleanup_expired removes exactly the entries with
\* now - updated_at > ttl at the time of the call and returns how many they
\* were; every other entry stays, the entries that stay keep their relative
\* order, and no session is changed.
C29_CleanupExact ==
    [][ret'.op = "cleanup_expired"
       => /\ Range(sessions') = {o \in Range(sessions) : now - heap[o].updated_at <= TTL}
          /\ ret'.val = Cardinality({o \in Range(sessions) : now - heap[o].updated_at > TTL})
          /\ Len(sessions') = Len(sessions) - ret'.val
          /\ \A i, j \in 1..Len(sessions') :
                i < j => Pos(sessions, sessions'[i]) < Pos(sessions, sessions'[j])
          /\ heap' = heap]_vars

C29_Witness ==
    /\ ret.op = "cleanup_expired" /\ ret.val = 1
    /\ recent = <<"s2", "s1", "s3">>
    /\ StoredIds = <<"s2", "s3">>
    /\ now - heap[sessions[1]].updated_at = TTL

(***************************************************************************)
(* Properties of a turn.                                                   *)
(***************************************************************************)
InFlight == {"load", "create", "stream", "save"}

Terminals(out) == {i \in 1..Len(out) : out[i].kind \in {"done", "error"}}

Last(q) == q[Len(q)]

\* the session a get on the id returns now, from either backend
Readback(id) ==
    IF backend = "memory"
    THEN LET g == MemGet(sessions, heap, id, now) IN
         IF g.val = None THEN [found |-> FALSE, messages |-> <<>>]
         ELSE [found |-> TRUE, messages |-> heap[g.val].messages]
    ELSE LET g == RedisGet(rdb, id, now) IN
         [found |-> g.found, messages |-> g.session.messages]

\* C4: a turn that is not cancelled emits exactly one terminal message: none
\* while it runs, and exactly one, done or error and the last message, once
\* it has ended.
C4_OneTerminalPerTurn ==
    \A c \in Conns :
        LET L == conn[c] IN
        /\ L.pc \in InFlight \cup {"idle", "cancelled"} => Terminals(L.out) = {}
        /\ L.pc \in {"done", "error"}
           => Terminals(L.out) = {Len(L.out)} /\ Last(L.out).kind = L.pc

C4_Witness ==
    /\ conn["c1"].pc = "error" /\ conn["c1"].failed_at = "stream"
    /\ Len(conn["c1"].out) = 3
    /\ conn["c1"].turns = 2

\* C5: an exception while loading the session, creating or running the
\* agent, processing an event or saving the session ends the turn with one
\* error message appended to what was out, and no done; an event that cannot
\* be processed is the last one consumed; after the error the turn consumes
\* and emits nothing more.
C5_ErrorEndsTurn ==
    [][ \A c \in Conns :
          LET L == conn[c]
              M == conn'[c]
          IN  /\ M.pc = "error" /\ L.pc # "error"
                 => /\ L.pc \in InFlight
                    /\ M.failed_at \in InFlight \cup {"agent"}
                    /\ M.out = Append(L.out, Error)
                    /\ \A i \in 1..Len(L.out) : L.out[i].kind \notin {"done", "error"}
              /\ Len(M.events) > Len(L.events) /\ ~Last(M.events).ok
                 => M.pc = "error" /\ M.failed_at = "stream"
              /\ L.pc = "error" /\ M.turns = L.turns => M = L
      ]_vars

C5_Witness ==
    /\ conn["c1"].pc = "error"
    /\ Len(conn["c1"].events) = 2
    /\ conn["c1"].events[1].text = <<"a">>
    /\ conn["c1"].events[2].event = "on_tool_end" /\ ~conn["c1"].events[2].ok
    /\ conn["c1"].out = <<Chunk(<<"a">>), Error>>

\* C6: after a turn whose agent stream raised, a get on the session id
\* returns the session with the turn's user message as its last message, and
\* the turn added no assistant message.
C6_UserMessageRetained ==
    \A c \in Conns :
        LET L == conn[c] IN
        L.pc = "error" /\ L.failed_at = "stream"
        => /\ Readback(L.session_id).found
           /\ Readback(L.session_id).messages = heap[L.session].messages
           /\ Last(heap[L.session].messages) = HumanMessage(L.content)
           /\ \A i \in 1..Len(L.ops) : L.ops[i].role # "assistant"

\* what the events consumed so far call for, in their order
RECURSIVE Mirror(_)
Mirror(evs) ==
    IF evs = <<>> THEN <<>>
    ELSE LET e == Head(evs) IN
         (IF ~e.ok THEN <<>>
          ELSE IF e.event = "on_chat_model_stream" /\ e.text # <<>> THEN <<Chunk(e.text)>>
          ELSE IF e.event = "on_tool_start" THEN <<ToolCall(e.text)>>
          ELSE IF e.event = "on_tool_end" THEN <<ToolResult(e.text)>>
          ELSE <<>>) \o Mirror(Tail(evs))

\* C7: at every point of a turn the chunk, tool-call and tool-result messages
\* sent are those of the events consumed so far, in the order of the events,
\* each once; the done or error message comes after all of them.
C7_OutMirrorsEvents ==
    \A c \in Conns :
        LET L == conn[c] IN
        L.out = Mirror(L.events) \o
                (IF L.pc \in {"done", "error"} THEN <<Last(L.out)>> ELSE <<>>)

C7_Witness ==
    /\ conn["c1"].pc = "done"
    /\ Len(conn["c1"].out) = 4
    /\ conn["c1"].out[1].kind = "tool_call"
    /\ conn["c1"].out[2].kind = "tool_result"
    /\ conn["c1"].out[3].kind = "chunk"

RECURSIVE ChunkText(_)
ChunkText(out) ==
    IF out = <<>> THEN <<>>
    ELSE (IF Head(out).kind = "chunk" THEN Head(out).content ELSE <<>>)
         \o ChunkText(Tail(out))

RECURSIVE UsageSum(_, _)
UsageSum(evs, k) ==
    IF evs = <<>> THEN 0
    ELSE (IF Head(evs).event = "on_llm_end" /\ Head(evs).usage # <<>>
          THEN Head(evs).usage[k] ELSE 0) + UsageSum(Tail(evs), k)

\* C8: the done message of a turn carries the concatenation, in order, of the
\* contents of the chunks of the turn, and the sums of the input and output
\* token counts of the turn's usage events.
C8_DoneCarriesTextAndUsage ==
    \A c \in Conns :
        LET L == conn[c] IN
        L.pc = "done"
        => /\ Last(L.out).kind = "done"
           /\ Last(L.out).content = ChunkText(L.out)
           /\ Last(L.out).usage = <<UsageSum(L.events, 1), UsageSum(L.events, 2)>>

C8_Witness ==
    /\ conn["c1"].pc = "done"
    /\ Last(conn["c1"].out) = Done(<<"b", "a">>, 1, 2)

\* C9: when done is sent, the turn has got (or created and saved) the
\* session, added the user message, added the assistant message if and only
\* if the final text is not empty, and then saved the session once, in that
\* order; the session ends with exactly these messages, and a get returns it.
C9_AssistantIffText ==
    \A c \in Conns :
        LET L == conn[c]
            user == AddOp(HumanMessage(L.content))
            reply == IF L.final_content # <<>>
                     THEN <<AIMessage(L.final_content)>> ELSE <<>>
            tail == <<user>> \o [i \in 1..Len(reply) |-> AddOp(reply[i])] \o <<SaveOp>>
            msgs == heap[L.session].messages
            added == <<HumanMessage(L.content)>> \o reply
        IN  /\ L.pc = "done"
               => /\ L.ops \in {<<GetOp>> \o tail, <<GetOp, SaveOp>> \o tail}
                  /\ Len(msgs) >= Len(added)
                  /\ SubSeq(msgs, Len(msgs) - Len(added) + 1, Len(msgs)) = added
                  /\ Readback(L.session_id).found
                  /\ Readback(L.session_id).messages = msgs
            /\ L.pc = "save" => Terminals(L.out) = {}

C9_Witness ==
    /\ conn["c1"].pc = "done"
    /\ conn["c1"].final_content = <<>>
    /\ conn["c1"].out[1].kind = "tool_call"
    /\ conn["c1"].turns = 2
    /\ Len(heap[conn["c1"].session].messages) = 3

(***************************************************************************)
(* Properties of the tool dispatcher.                                      *)
(***************************************************************************)
Retryable(o) == o.kind = "ToolAdapterError" /\ o.is_retryable

\* C10: for a registered tool with retry budget N, while every attempt so far
\* failed retryably and fewer than N + 1 were made, execute makes another;
\* it returns the result of the first attempt that succeeds, so after f <= N
\* retryable failures and a success it has made f + 1 attempts; after N + 1
\* retryable failures it raises and has made exactly N + 1 attempts.
C10_RetryBudget ==
    LET h == exec.hist
        n == Len(h)
        N == exec.max_retries
        allRetry == \A i \in 1..n : Retryable(h[i])
        lead == \A i \in 1..(n - 1) : Retryable(h[i])
    IN  exec.adapter # None
        => /\ n <= N + 1
           /\ allRetry /\ n <= N => exec.pc = "attempt"
           /\ allRetry /\ n = N + 1 => exec.pc = "raised" /\ exec.result = h[n]
           /\ n >= 1 /\ lead /\ h[n].kind = "ok"
              => exec.pc = "returned" /\ exec.result = h[n]
           /\ exec.pc = "returned" => n >= 1 /\ lead /\ h[n].kind = "ok"

C10_Witness ==
    /\ exec.pc = "returned"
    /\ exec.max_retries = 2
    /\ Len(exec.hist) = 3
    /\ exec.result.val = "v2"

\* the handlers of a supported kind that go by the name
HttpHandlers(cfg, name) ==
    {i \in 1..Len(cfg) : cfg[i].type = "http" /\ tool_name(cfg[i]) = name}

Max(S) == CHOOSE x \in S : \A y \in S : y <= x

\* C21: after initialize has returned, the keys of the registry are exactly
\* the tool names of the http handlers, so one adapter per name, and each
\* name has the adapter of the last http handler of that name in the list;
\* a handler of another kind adds no key, and initialize does not fail on a
\* list whose every http handler has a well-formed timeout, whatever the
\* handlers of other kinds carry.
C21_RegistryLastWins ==
    LET cfg == tools_config
        names == {tool_name(cfg[i]) : i \in {j \in 1..Len(cfg) : cfg[j].type = "http"}}
    IN  /\ ret.op = "initialize"
           => /\ DOMAIN adapters = names
              /\ \A k \in DOMAIN adapters : adapters[k] = Max(HttpHandlers(cfg, k))
        /\ ret.op = "initialize raised"
           => \E i \in 1..Len(cfg) : cfg[i].type = "http" /\ cfg[i].timeout = <<"m">>

C21_Witness ==
    /\ ret.op = "initialize"
    /\ Len(tools_config) = 3
    /\ tools_config[1].type = "http" /\ tools_config[1].tool = NoTool
    /\ tools_config[2].type = "http" /\ tools_config[2].tool = "h1"
    /\ tools_config[3].type = "grpc" /\ tools_config[3].tool = "h1"
    /\ tools_config[3].timeout = <<"m">>
    /\ adapters["h1"] = 2

TransportTimeouts == {"ConnectTimeout", "ReadTimeout"}

ConnectionFailures == {"ConnectError", "ReadError", "RemoteProtocolError"}

NonRetryable(o) == o.kind = "ToolAdapterError" /\ ~o.is_retryable

\* C11: whatever the retry budget of a registered tool, an attempt that fails
\* with a non-retryable tool adapter error is the last attempt: execute raises
\* that very error and calls the adapter no more; so when the first attempt
\* fails this way exactly one attempt is made.
C11_NonRetryableRaisesAtOnce ==
    LET h == exec.hist IN
    exec.adapter # None
    => /\ \A i \in 1..Len(h) :
            NonRetryable(h[i])
            => i = Len(h) /\ exec.pc = "raised" /\ exec.result = h[i]
       /\ Len(h) >= 1 /\ NonRetryable(h[1]) => Len(h) = 1

C11_Witness ==
    /\ exec.adapter # None
    /\ exec.max_retries = 2
    /\ exec.pc = "raised"
    /\ Len(exec.hist) = 1
    /\ NonRetryable(exec.hist[1])

\* C12: execute for a name with no adapter in the registry raises at once a
\* tool adapter error that is not retryable: no adapter has been called, no
\* attempt counted and no retry budget read, whatever budget the
\* configuration gives that name.
C12_UnknownToolFailsAtOnce ==
    exec.pc # "idle" /\ exec.adapter = None
    => /\ exec.pc = "raised"
       /\ NonRetryable(exec.result)
       /\ exec.hist = <<>>
       /\ exec.attempt = 0
       /\ exec.max_retries = 0

C12_Witness ==
    /\ exec.pc = "raised"
    /\ exec.adapter = None
    /\ exec.tool_name \notin DOMAIN adapters
    /\ adapters # NoKeys
    /\ max_retries(tools_config, exec.tool_name) = 2

\* C13: when a call of a registered tool has used up its retry budget (every
\* one of its N + 1 attempts failed retryably) and so failed with a tool
\* adapter error, the tool-result message that reports the call carries
\* is_error = true, and the turn goes on consuming the agent's events.
C13_ToolFailureFlagged ==
    [][(/\ exec.pc = "raised"
        /\ exec.adapter # None
        /\ Len(exec.hist) = exec.max_retries + 1
        /\ \A i \in 1..Len(exec.hist) : Retryable(exec.hist[i])
        /\ exec'.pc = "idle")
       => /\ conn'["c1"].pc = "stream"
          /\ Last(conn'["c1"].out).kind = "tool_result"
          /\ Last(conn'["c1"].out).is_error]_vars

\* C25: the retry budget execute applies to a registered tool is the retries
\* value of the handler definition its adapter was built from, also when
\* that handler has no tool block (and is registered under its own name) and
\* when several handlers go by the same tool name.
C25_BudgetOfBoundHandler ==
    exec.pc # "idle" /\ exec.adapter # None
    => exec.max_retries = tools_config[exec.adapter].retries

\* C20: every call of ToolManager.close, the first or a later one, and also
\* one during which the close of an adapter fails, leaves the registry empty
\* and has released the client of every adapter of the registry that had
\* one; a client already released is not released again.
C20_CloseReleasesAll ==
    [][ret' # ret
       => /\ adapters' = NoKeys
          /\ \A name \in DOMAIN adapters :
                clients[adapters[name]] = "open"
                => clients'[adapters[name]] = "released"
          /\ \A a \in DOMAIN clients :
                clients[a] # "open" => clients'[a] = clients[a]]_vars

(***************************************************************************)
(* Properties of the record codec.                                         *)
(***************************************************************************)
FourRoles == {"user", "assistant", "system", "tool"}

\* C17: a session whose messages have the roles user, assistant, system and
\* tool-result, in any order, saved to the external cache and read back, is
\* a session with the same messages in the same order (role, content and
\* tool-linkage id of each position), the same metadata and the same
\* created and updated timestamps.
C17_CodecRoundTrip ==
    (/\ ret.op = "get"
     /\ \A i \in 1..Len(heap[ret.had].messages) :
           heap[ret.had].messages[i].role \in FourRoles)
    => LET a == heap[ret.had]
           b == heap[ret.val]
       IN  /\ Len(b.messages) = Len(a.messages)
           /\ \A i \in 1..Len(a.messages) :
                 /\ b.messages[i].role = a.messages[i].role
                 /\ b.messages[i].content = a.messages[i].content
                 /\ b.messages[i].tool_call_id = a.messages[i].tool_call_id
           /\ b.metadata = a.metadata
           /\ b.created_at = a.created_at
           /\ b.updated_at = a.updated_at

C17_Witness ==
    /\ ret.op = "get"
    /\ Len(heap[2].messages) = 2
    /\ heap[2].messages[1].role = "tool" /\ heap[2].messages[1].tool_call_id = "call1"
    /\ heap[2].messages[2].role = "system"
    /\ heap[2].metadata # NoMetadata
    /\ heap[2].created_at < heap[2].updated_at
    /\ heap[2] = heap[1]

\* C18: on the external cache, a get that finds a record it cannot
\* deserialize returns absent and raises nothing: get_or_create goes on to
\* build an empty session, and its save overwrites the record with one that
\* can be read and has no messages; the turn then runs on the user message
\* alone and ends in done with a readable record stored, never in error.
C18_CorruptRecordResets ==
    [][LET L == conn["c1"]
           M == conn'["c1"]
           id == L.session_id
       IN  M # L =>
           /\ M.pc # "error"
           /\ (L.pc = "load" /\ RedisLive(rdb, id, now) /\ ~Deserializable(rdb[id].data))
              => M.pc = "create" /\ heap'[M.session] = Session(id, now)
           /\ L.pc = "create"
              => /\ M.pc = "stream"
                 /\ RedisGet(rdb', id, now).found
                 /\ RedisGet(rdb', id, now).session.messages = <<>>
                 /\ heap'[M.session].messages = <<HumanMessage(L.content)>>
           /\ L.pc = "save"
              => /\ M.pc = "done"
                 /\ RedisGet(rdb', id, now).found
                 /\ RedisGet(rdb', id, now).session.messages = heap'[M.session].messages]_vars

C18_Witness ==
    /\ conn["c1"].pc = "done"
    /\ conn["c1"].turns = 2
    /\ SubSeq(conn["c1"].ops, 1, 2) = <<GetOp, SaveOp>>
    /\ Len(heap[conn["c1"].session].messages) = 2
    /\ Len(heap) = 2

(***************************************************************************)
(* Properties of the timeout parser.                                       *)
(***************************************************************************)
HasUnit(str, u) == endswith(str, u) /\ IsNumeral(Front(str))

\* C19: _parse_timeout never raises; it returns n for "<n>s", 60 n for
\* "<n>m", 3600 n for "<n>h", the number for a bare numeral, and the default
\* of 30 seconds for every other string.
C19_ParseTimeoutTotal ==
    ret.op = "_parse_timeout"
    => LET str == ret.id
           n == Numeral(Front(str))
       IN  /\ ~ret.val.raised
           /\ ret.val.value =
                 (IF HasUnit(str, "s") THEN n
                  ELSE IF HasUnit(str, "m") THEN 60 * n
                  ELSE IF HasUnit(str, "h") THEN 3600 * n
                  ELSE IF IsNumeral(str) THEN Numeral(str)
                  ELSE DefaultTimeout)

\* C28: while a session id stays stored (nothing here deletes, expires or
\* evicts it), the messages a get returns for it only grow at the end: what
\* was read before any step is a prefix of what is read after it, whichever
\* connection's turn took the step.
C28_HistoryAppendOnly ==
    [][\A id \in TurnIds :
         Readback(id).found /\ Readback(id)'.found
         => IsPrefix(Readback(id).messages, Readback(id)'.messages)]_vars

AssistantCount(msgs) == Cardinality({i \in 1..Len(msgs) : msgs[i].role = "assistant"})

\* C27: whatever the point at which a turn is cancelled, the session a get
\* returns gains an assistant message only in a step that ends the turn's
\* event stream or follows its end (the final save), one message per turn,
\* whose content is the concatenation of all the text chunks of the turn; a
\* turn cancelled before the end of its stream adds none.
C27_NoPartialReply ==
    [][LET L == conn["c1"]
           M == conn'["c1"]
           before == Readback(L.session_id).messages
           after == Readback(L.session_id)'.messages
       IN  /\ AssistantCount(after) > AssistantCount(before)
              => /\ AssistantCount(after) = AssistantCount(before) + 1
                 /\ Last(after) = AIMessage(ChunkText(L.out))
                 /\ \/ L.pc = "stream" /\ M.pc = "done"
                    \/ L.pc = "save"
           /\ M.pc = "cancelled" /\ L.pc \in {"load", "create", "stream"}
              => AssistantCount(after) = AssistantCount(before)]_vars

C27_Witness ==
    /\ conn["c1"].pc = "cancelled"
    /\ conn["c1"].turns = 2
    /\ conn["c1"].out = <<Chunk(<<"a">>)>>
    /\ backend = "memory"
    /\ Readback("s1").messages =
          <<HumanMessage(<<"q">>), AIMessage(<<"b", "a">>), HumanMessage(<<"q">>)>>

(***************************************************************************)
(* Properties of connections that share a session id.                      *)
(***************************************************************************)
\* C26: get_or_create is a get and then a save, and another task may run
\* between the two: a task whose get observed absence builds a Session
\* object of its own, which no other task holds, also when another task has
\* already observed absence for the same id and not yet saved; each save
\* replaces what is stored, so the store holds the session of the save that
\* ran last, and the session of the other task is no longer the stored one.
C26_GetOrCreateRace ==
    [][\A c \in Conns :
         LET L == conn[c]
             M == conn'[c]
             id == L.session_id
         IN  /\ L.pc = "load" /\ M.pc = "create"
                => /\ M.session = Len(heap) + 1
                   /\ heap'[M.session] = Session(id, now)
                   /\ \A d \in Conns \ {c} : conn'[d].session # M.session
             /\ L.pc = "create" /\ M.pc = "stream"
                => /\ RedisGet(rdb', id, now).found
                   /\ RedisGet(rdb', id, now).session = Session(id, now)
                   /\ heap'[M.session].messages = <<HumanMessage(L.content)>>
             /\ L.pc = "save" /\ M.pc = "done"
                => /\ RedisGet(rdb', id, now).found
                   /\ RedisGet(rdb', id, now).session = heap'[M.session]]_vars

C26_Witness ==
    /\ conn["c1"].pc = "done" /\ conn["c2"].pc = "done"
    /\ conn["c1"].turns = 1 /\ conn["c2"].turns = 1
    /\ conn["c1"].session_id = conn["c2"].session_id
    /\ SubSeq(conn["c1"].ops, 1, 2) = <<GetOp, SaveOp>>
    /\ SubSeq(conn["c2"].ops, 1, 2) = <<GetOp, SaveOp>>
    /\ conn["c1"].session # conn["c2"].session
    /\ heap[conn["c1"].session].messages = <<HumanMessage(<<"q">>)>>
    /\ Readback("s1").messages = <<HumanMessage(<<"r">>)>>

(***************************************************************************)
(* Properties of the process configuration.                                *)
(***************************************************************************)
Missing(env, name) == env[name] \in {NoEnv, ""}

BadInt(env, name) == ~Missing(env, name) /\ env[name] # "7"

Selected(env, name, default) ==
    lower(IF env[name] = NoEnv THEN default ELSE env[name])

NoKey(env, name) == env[name] \in {NoEnv, ""}

\* an environment load_config must reject
Rejected(env) ==
    \/ Missing(env, "OMNIA_AGENT_NAME") \/ Missing(env, "OMNIA_NAMESPACE")
    \/ \E name \in {"OMNIA_SESSION_TTL", "OMNIA_CONTEXT_WINDOW",
                     "OMNIA_GRPC_PORT", "OMNIA_HEALTH_PORT"} : BadInt(env, name)
    \/ Selected(env, "OMNIA_SESSION_TYPE", "memory") \notin {"memory", "redis"}
    \/ Selected(env, "OMNIA_PROVIDER_TYPE", "mock")
           \notin {"claude", "openai", "gemini", "ollama", "mock"}
    \/ /\ Selected(env, "OMNIA_SESSION_TYPE", "memory") = "redis"
       /\ Missing(env, "OMNIA_SESSION_URL")
    \/ Selected(env, "OMNIA_PROVIDER_TYPE", "mock") = "claude" /\ NoKey(env, "ANTHROPIC_API_KEY")
    \/ Selected(env, "OMNIA_PROVIDER_TYPE", "mock") = "openai" /\ NoKey(env, "OPENAI_API_KEY")
    \/ Selected(env, "OMNIA_PROVIDER_TYPE", "mock") = "gemini" /\ NoKey(env, "GOOGLE_API_KEY")

\* C23: load_config raises ConfigError exactly when the agent name or the
\* namespace is missing, an integer setting is no integer, the session type
\* or the provider type is no value of its enumeration, the external cache
\* is selected without a URL, or Claude, OpenAI or Gemini is selected without
\* its API key, and otherwise returns a Config; main creates the handler
\* (and with it the session store) and opens the listeners only after
\* load_config has returned, and exits when it has raised.
C23_ConfigErrorBeforeStart ==
    LET env == ret.id IN
    /\ ret.op = "load_config"
       => /\ ret.val.raised <=> Rejected(env)
          /\ ret.val.raised => ret.val.error = "ConfigError"
    /\ ret.op \in {"LangChainHandler", "serve"} => ~Rejected(env)
    /\ ret.op = "exit" => Rejected(env)
    /\ Rejected(env) \/ ret.op \in {"init", "load_config"} => backend = "none"

C23_Witness ==
    /\ ret.op = "exit"
    /\ ret.val.msg = "OMNIA_SESSION_URL"
    /\ ret.id.OMNIA_SESSION_TYPE = "REDIS"
    /\ ret.id.OMNIA_PROVIDER_TYPE = "Claude"
    /\ ret.id.ANTHROPIC_API_KEY = "k"
    /\ backend = "none"

(***************************************************************************)
(* Properties of a connection.                                             *)
(***************************************************************************)
\* C14: on one connection the next inbound message is taken up only when the
\* turn before it is over: its terminal message is out, as its last message,
\* and, when it ended in done, its session save is done; the new turn starts
\* with nothing consumed or sent, and within a turn messages are only
\* appended: the messages of two turns never interleave.
C14_TurnsSequential ==
    [][\A c \in Conns :
         LET L == conn[c]
             M == conn'[c]
         IN  /\ M.turns # L.turns
                => /\ M.turns = L.turns + 1
                   /\ L.pc \in {"idle", "done", "error"}
                   /\ L.turns > 0 => Terminals(L.out) = {Len(L.out)}
                   /\ L.pc = "done" => Last(L.ops) = SaveOp
                   /\ M.out = <<>> /\ M.events = <<>> /\ M.ops = <<>>
             /\ M.turns = L.turns
                => IsPrefix(L.out, M.out) /\ IsPrefix(L.ops, M.ops)]_vars

C14_Witness ==
    /\ conn["c1"].turns = 2
    /\ conn["c1"].pc = "save"
    /\ Len(conn["c1"].out) = 1
    /\ conn["c1"].out[1].kind = "tool_call"

(***************************************************************************)
(* Properties of a cancelled connection.                                   *)
(***************************************************************************)
\* C31: the step that cancels a turn emits nothing, the turn it interrupts
\* has emitted neither a done nor an error message, and from then on the
\* connection is over: nothing more is emitted, no store operation is made
\* and no further inbound message is taken up.
C31_CancelEndsConnection ==
    [][\A c \in Conns :
         LET L == conn[c]
             M == conn'[c]
         IN  /\ (L.pc # "cancelled" /\ M.pc = "cancelled")
                => /\ M.out = L.out
                   /\ Terminals(M.out) = {}
                   /\ M.turns = L.turns
             /\ L.pc = "cancelled" => M = L]_vars

C31_Witness ==
    /\ conn["c1"].pc = "cancelled"
    /\ conn["c1"].turns = 1
    /\ conn["c1"].turns < MaxTurns
    /\ Len(conn["c1"].out) = 2
    /\ conn["c1"].out[1].kind = "chunk"
    /\ conn["c1"].out[2].kind = "tool_call"

(***************************************************************************)
(* Properties of the capacity of the in-process store.                     *)
(***************************************************************************)
\* C32: after every operation of the in-process store (get, save, delete,
\* cleanup_expired, in any order, max_sessions >= 1) the map holds at most
\* max_sessions sessions and no session id twice.
C32_CapacityInvariant ==
    /\ max_sessions >= 1
    /\ Len(sessions) <= max_sessions
    /\ Cardinality(Keys(sessions, heap)) = Len(sessions)

\* a full store has taken one more session, of an id it did not hold
C32_Witness ==
    /\ ret.op = "save"
    /\ ret.had = None
    /\ Len(heap) = MaxObjs
    /\ Len(sessions) = max_sessions
    /\ Keys(sessions, heap) # {heap[o].session_id : o \in 1..Len(heap)}
    /\ now > 0

\* C33: a save of a session whose id is stored evicts nothing, also when the
\* store is full: the ids stored are the same before and after, the other
\* entries keep their order, and the saved session is the most recently used.
C33_ResaveEvictsNothing ==
    [][ret'.op = "save" /\ ret'.had # None
       => /\ Keys(sessions', heap') = Keys(sessions, heap)
          /\ Len(sessions') = Len(sessions)
          /\ sessions' = Append(DelKey(sessions, heap, ret'.id), ret'.val)]_vars

\* a full store of two: the older entry has been saved again, the other stays
C33_Witness ==
    /\ ret.op = "save"
    /\ ret.had # None
    /\ max_sessions = 2
    /\ Len(sessions) = 2
    /\ Len(recent) = 2
    /\ sessions[2] = ret.val
    /\ ret.val # ret.had

(***************************************************************************)
(* Properties of the expiry deadline of a stored session.                  *)
(***************************************************************************)
Mutators == {"add_message", "add_messages", "clear_messages", "save"}

\* C34: a get changes no session: updated_at is set, to the time of the
\* call, by add_message, add_messages, clear_messages and save on that
\* session and by nothing else; a get of a stored session returns it while
\* now - updated_at <= ttl and absent afterwards, however often the session
\* has been read since it was last changed or saved.
C34_GetDoesNotRefresh ==
    [][/\ ret'.op = "get" => heap' = heap
       /\ \A o \in 1..Len(heap) :
             heap'[o].updated_at # heap[o].updated_at
             => ret'.op \in Mutators /\ ret'.val = o
       /\ ret'.op \in Mutators => heap'[ret'.val].updated_at = now
       /\ ret'.op = "get" /\ ret'.had # None
          => (ret'.val = None <=> now - heap[ret'.had].updated_at > TTL)]_vars

\* a session changed at time 0 and not since is got at time 2: absent
C34_Witness ==
    /\ ret.op = "get"
    /\ ret.had # None
    /\ ret.val = None
    /\ heap[ret.had].messages # <<>>
    /\ heap[ret.had].updated_at = 0
    /\ now = MaxTime

\* C35: a save of an id that is not stored into a full store evicts the
\* least recently used entry, expired or not, and no other: the entries that
\* stay, expired ones among them, keep their places.
C35_ExpiredOccupyCapacity ==
    [][ret'.op = "save" /\ ret'.had = None /\ Len(sessions) = max_sessions
       => sessions' = Append(Tail(sessions), ret'.val)]_vars

\* the save has evicted a session that is not expired, and the entry that is
\* now the oldest is expired
C35_Witness ==
    /\ ret.op = "save"
    /\ ret.had = None
    /\ Len(sessions) = max_sessions
    /\ sessions[Len(sessions)] = ret.val
    /\ IsExpired(heap, sessions[1], now)
    /\ Cardinality({heap[o].session_id : o \in 1..Len(heap)}) = Len(heap)
    /\ \E o \in 1..Len(heap) :
          /\ \A i \in 1..Len(sessions) : sessions[i] # o
          /\ ~IsExpired(heap, o, now)

(***************************************************************************)
(* Properties of two turns on one session id that overlap.                 *)
(***************************************************************************)
\* the turn of c holds a Session it has read or built and has not yet saved
\* for the last time
HasCopy(c) == conn[c].pc \in {"create", "stream", "save"}

\* the messages of the turn of c: its user message and its reply, if any
OwnMessages(c) ==
    <<HumanMessage(conn[c].content)>>
    \o (IF conn[c].final_content # <<>>
        THEN <<AIMessage(conn[c].final_content)>> ELSE <<>>)

BothDone == \A c \in Conns : conn[c].pc = "done"

\* C36: on the external cache each turn holds a Session object of its own,
\* which no step of the other connection changes, and its final save stores
\* that whole object, whatever the record held; so when both turns hold
\* their copy at the same time (each has read before the other's final
\* save), the record after both are done is the copy of the turn that saved
\* last and holds the messages of that turn only.
C36_LostUpdate ==
    /\ [][backend = "redis" =>
            \A c \in Conns :
               LET L == conn[c]
                   M == conn'[c]
               IN  /\ L.pc = "save" /\ M.pc = "done"
                      => RedisGet(rdb', L.session_id, now).session = heap'[L.session]
                   /\ HasCopy(c) /\ M = L => heap'[L.session] = heap[L.session]
                   /\ \A d \in Conns \ {c} :
                         HasCopy(c) /\ HasCopy(d) => L.session # conn[d].session]_vars
    /\ [](backend = "redis" /\ HasCopy("c1") /\ HasCopy("c2")
          => [](BothDone
                => \E c \in Conns :
                      /\ Readback("s1").messages = heap[conn[c].session].messages
                      /\ Readback("s1").messages = OwnMessages(c)))

\* both turns are done: the record holds the question and the reply of the
\* second connection, and nothing of the first, which has sent its done
C36_Witness ==
    /\ backend = "redis"
    /\ BothDone
    /\ conn["c1"].out[Len(conn["c1"].out)].kind = "done"
    /\ conn["c1"].final_content = <<"a">>
    /\ Readback("s1").messages = <<HumanMessage(<<"r">>), AIMessage(<<"b">>)>>

\* the message m is among msgs
Holds(msgs, m) == \E i \in 1..Len(msgs) : msgs[i] = m

\* C37: on the in-process store every turn works on the stored Session
\* object itself: what a turn has appended is in what a get returns, and in
\* the session the other turn holds, from the moment it is appended and
\* before any save; when both turns are done the stored history holds the
\* user and the assistant message of each, and nothing else.
C37_SharedSession ==
    backend = "memory" =>
       LET msgs == Readback("s1").messages IN
       /\ \A c \in Conns :
             conn[c].session # None
             => /\ conn[c].session = Lookup(sessions, heap, conn[c].session_id)
                /\ heap[conn[c].session].messages = msgs
                /\ Holds(msgs, HumanMessage(conn[c].content))
                /\ conn[c].pc = "done"
                   => \A i \in 1..Len(OwnMessages(c)) : Holds(msgs, OwnMessages(c)[i])
       /\ BothDone => Len(msgs) = Len(OwnMessages("c1")) + Len(OwnMessages("c2"))

\* the two turns ran side by side and the history holds all four messages
C37_Witness ==
    /\ backend = "memory"
    /\ BothDone
    /\ conn["c1"].session = conn["c2"].session
    /\ Readback("s1").messages =
          <<HumanMessage(<<"q">>), HumanMessage(<<"r">>),
            AIMessage(<<"b">>), AIMessage(<<"a">>)>>

(***************************************************************************)
(* Properties of the exceptions of an adapter.                             *)
(***************************************************************************)
\* C38: execute goes on to another attempt only after a tool adapter error:
\* an attempt that raises any other exception is the last one, whatever is
\* left of the retry budget, and execute raises that very exception.
C38_OtherExceptionsPropagate ==
    LET h == exec.hist IN
    exec.adapter # None
    => /\ \A i \in 1..(Len(h) - 1) : h[i].kind = "ToolAdapterError"
       /\ \A i \in 1..Len(h) :
             h[i].kind = "Exception"
             => /\ i = Len(h)
                /\ exec.pc = "raised"
                /\ exec.result = h[i]
                /\ exec.attempt = i - 1

\* the second attempt of three raised an exception that is no tool adapter
\* error: execute has raised it
C38_Witness ==
    /\ exec.adapter # None
    /\ exec.max_retries = 2
    /\ exec.pc = "raised"
    /\ Len(exec.hist) = 2
    /\ exec.hist[2].kind = "Exception"
    /\ exec.result.kind = "Exception"

(***************************************************************************)
(* Properties of the events that are not passed on.                        *)
(***************************************************************************)
\* the event calls for an outbound message
Speaks(e) ==
    \/ e.event = "on_chat_model_stream" /\ e.text # <<>>
    \/ e.event \in {"on_tool_start", "on_tool_end"}

\* C39: a chunk, a tool call or a tool result is sent only in the step that
\* consumes a text event with text, a tool-started or a tool-finished event,
\* one message per event; a text event without text, a completion event and
\* an event of any other type, when it can be processed, sends nothing and
\* leaves the final text as it was, and the turn goes on to the next event.
C39_SilentEvents ==
    [][\A c \in Conns :
         LET L == conn[c]
             M == conn'[c]
             e == Last(M.events)
         IN  /\ (M.turns = L.turns /\ Len(M.events) = Len(L.events) + 1 /\ e.ok)
                => IF Speaks(e)
                   THEN /\ Len(M.out) = Len(L.out) + 1
                        /\ Last(M.out).kind =
                              (CASE e.event = "on_chat_model_stream" -> "chunk"
                                 [] e.event = "on_tool_start" -> "tool_call"
                                 [] e.event = "on_tool_end" -> "tool_result")
                   ELSE /\ M.out = L.out
                        /\ M.final_content = L.final_content
                        /\ M.pc = "stream"
             /\ (M.turns = L.turns /\ M.out # L.out
                 /\ Last(M.out).kind \in {"chunk", "tool_call", "tool_result"})
                => Len(M.events) = Len(L.events) + 1 /\ Speaks(e)]_vars

\* three events went by without a message: a text event without text, a
\* completion event with usage, and an event of another type
C39_Witness ==
    /\ conn["c1"].pc = "stream"
    /\ Len(conn["c1"].events) = 3
    /\ conn["c1"].events[1] = Event("on_chat_model_stream", <<>>, <<>>, TRUE)
    /\ conn["c1"].events[2] = Event("on_llm_end", <<>>, <<1, 2>>, TRUE)
    /\ conn["c1"].events[3] = Event("on_chain_start", <<>>, <<>>, TRUE)
    /\ conn["c1"].out = <<>>
    /\ conn["c1"].final_content = <<>>
    /\ conn["c1"].total_input_tokens = 1

(***************************************************************************)
(* Properties of the adapter registry.                                     *)
(***************************************************************************)
\* C40: no step of an execute call, alone or beside another call, returning
\* or raising, changes the registry or the tools configuration: once
\* initialize has filled the registry, it maps the names it mapped then to
\* the adapters it mapped them to then.
C40_RegistryReadOnly ==
    [][/\ (exec' # exec \/ exec2' # exec2)
          => adapters' = adapters /\ tools_config' = tools_config
       /\ adapters # NoKeys
          => /\ adapters = Registry(tools_config, Len(tools_config))
             /\ adapters' = adapters]_vars

\* two calls for the same tool are in flight, each after a failed attempt
C40_Witness ==
    /\ exec.pc = "attempt"
    /\ exec2.pc = "attempt"
    /\ exec.tool_name = exec2.tool_name
    /\ Len(exec.hist) = 1
    /\ Len(exec2.hist) = 1
    /\ adapters # NoKeys

=============================================================================
